---- MODULE Spec2Model ----
(***************************************************************************)
(* Model of the personal-planner core: the in-memory session/task/event    *)
(* store (app/services/storage.py), the interaction memory index           *)
(* (app/services/memory.py) and the planner workflows that compose them    *)
(* (app/services/planner.py), with the request boundary of                 *)
(* app/schemas.py, app/api/routes.py and app/ui/routes.py.                 *)
(*                                                                         *)
(* Text is a sequence of one-character strings, so that lower-casing,      *)
(* whitespace splitting and substring containment are computed.  A Python  *)
(* dict is a sequence of [key, val] entries in insertion order.  Objects   *)
(* that the code mutates in place (DailySession) live in a heap and are    *)
(* referred to by address; None is <<>> and a present optional is <<v>>.   *)
(***************************************************************************)
EXTENDS Integers, Sequences, FiniteSets, TLC

VARIABLES
    store_sessions,   \* InMemoryStore._sessions: dict date -> address of a DailySession
    heap,             \* the DailySession objects, by address
    uuids,            \* number of uuid4() values drawn so far
    store_events,     \* InMemoryStore._events
    store_tasks,      \* InMemoryStore._tasks: dict id -> Task
    memory_sessions,  \* MemoryService._sessions: dict key -> list of MemoryRecord
    today,            \* date.today()
    now,              \* datetime.utcnow()
    reqs,             \* the requests in flight: handler, payload, locals, position
    running,          \* the request whose handler holds the event loop (0: none)
    result,           \* the last operation and what it returned
    first_id,         \* history: per date, the id the first get_or_create_session returned
    appended,         \* history: per date, the energy samples handed to the store, in call order
    ops               \* number of steps taken (bounds the exploration)

vars == <<store_sessions, heap, uuids, store_events, store_tasks, memory_sessions,
          today, now, reqs, running, result, first_id, appended, ops>>

\* ------------------------------------------------------------------ bounds
MaxDay == 2
MaxOps == 3
MaxReqs == 2

Dates == 1..MaxDay
Times == {0, 1}

\* ------------------------------------------------------------------- text
Min(a, b) == IF a < b THEN a ELSE b
Max(a, b) == IF a < b THEN b ELSE a

\* A text is a sequence of characters. A printable character of ASCII is the
\* string of that character, and so are "\t", "\n", "\f" and "\r"; any other
\* character, and the grave accent, is the string of its code point in
\* hexadecimal, as in "(U+00E9)".
AsciiPrintable ==
    <<" ", "!", "\"", "#", "$", "%", "&", "'", "(", ")", "*", "+", ",", "-", ".", "/",
      "0", "1", "2", "3", "4", "5", "6", "7", "8", "9", ":", ";", "<", "=", ">", "?",
      "@", "A", "B", "C", "D", "E", "F", "G", "H", "I", "J", "K", "L", "M", "N", "O",
      "P", "Q", "R", "S", "T", "U", "V", "W", "X", "Y", "Z", "[", "\\", "]", "^", "_",
      "(U+0060)", "a", "b", "c", "d", "e", "f", "g", "h", "i", "j", "k", "l", "m", "n", "o",
      "p", "q", "r", "s", "t", "u", "v", "w", "x", "y", "z", "{", "|", "}", "~">>
HexDigits == <<"0", "1", "2", "3", "4", "5", "6", "7", "8", "9", "A", "B", "C", "D", "E", "F">>

RECURSIVE HexValue(_)
HexValue(h) ==
    IF Len(h) = 0 THEN 0
    ELSE 16 * HexValue(SubSeq(h, 1, Len(h) - 1))
         + (CHOOSE k \in 1..16 : HexDigits[k] = SubSeq(h, Len(h), Len(h))) - 1

RECURSIVE HexText(_, _)
HexText(n, width) ==
    IF n = 0 /\ width <= 0 THEN ""
    ELSE HexText(n \div 16, width - 1) \o HexDigits[(n % 16) + 1]

\* ord(c)
AsciiCodes ==
    [c \in {AsciiPrintable[k] : k \in 1..Len(AsciiPrintable)} |->
        31 + CHOOSE k \in 1..Len(AsciiPrintable) : AsciiPrintable[k] = c]
CodePoint(c) ==
    IF Len(c) > 1 THEN HexValue(SubSeq(c, 4, Len(c) - 1))
    ELSE CASE c = "\t" -> 9 [] c = "\n" -> 10 [] c = "\f" -> 12 [] c = "\r" -> 13
           [] OTHER -> AsciiCodes[c]

\* chr(n)
Char(n) ==
    IF 32 <= n /\ n <= 126 THEN AsciiPrintable[n - 31]
    ELSE CASE n = 9 -> "\t" [] n = 10 -> "\n" [] n = 12 -> "\f" [] n = 13 -> "\r"
           [] OTHER -> "(U+" \o HexText(n, 4) \o ")"

\* the bytes of a text in UTF-8
Utf8Len(c) ==
    LET n == CodePoint(c)
    IN IF n < 128 THEN 1 ELSE IF n < 2048 THEN 2 ELSE IF n < 65536 THEN 3 ELSE 4
RECURSIVE Utf8Size(_)
Utf8Size(s) == IF s = <<>> THEN 0 ELSE Utf8Len(Head(s)) + Utf8Size(Tail(s))

\* str.isspace(): the code points str.split() and str.strip() take for white space
WhiteSpace ==
    <<<<9, 13>>, <<28, 32>>, <<133, 133>>, <<160, 160>>, <<5760, 5760>>, <<8192, 8202>>, <<8232,
      8233>>, <<8239, 8239>>, <<8287, 8287>>, <<12288, 12288>>>>

\* the zero of every run of ten decimal digits (category Nd)
DecimalZeros ==
    <<48, 1632, 1776, 1984, 2406, 2534, 2662, 2790, 2918, 3046, 3174, 3302, 3430, 3558, 3664,
      3792, 3872, 4160, 4240, 6112, 6160, 6470, 6608, 6784, 6800, 6992, 7088, 7232, 7248, 42528,
      43216, 43264, 43472, 43504, 43600, 44016, 65296, 66720, 68912, 69734, 69872, 69942, 70096,
      70384, 70736, 70864, 71248, 71360, 71472, 71904, 72016, 72784, 73040, 73120, 92768, 92864,
      93008, 120782, 120792, 120802, 120812, 120822, 123200, 123632, 125264, 130032>>

\* str.lower() beyond ASCII, for the letters it maps to one other character whatever
\* their neighbours: <<first, last, step, delta>> maps every step-th code point from
\* first to last to the code point delta further on
LowerRuns ==
    <<<<192, 214, 1, 32>>, <<216, 222, 1, 32>>, <<256, 302, 2, 1>>, <<306, 310, 2, 1>>, <<313,
      327, 2, 1>>, <<330, 374, 2, 1>>, <<376, 376, 1, -121>>, <<377, 381, 2, 1>>, <<385, 385, 1,
      210>>, <<386, 388, 2, 1>>, <<390, 390, 1, 206>>, <<391, 391, 1, 1>>, <<393, 394, 1, 205>>,
      <<395, 395, 1, 1>>, <<398, 398, 1, 79>>, <<399, 399, 1, 202>>, <<400, 400, 1, 203>>, <<401,
      401, 1, 1>>, <<403, 403, 1, 205>>, <<404, 404, 1, 207>>, <<406, 406, 1, 211>>, <<407, 407,
      1, 209>>, <<408, 408, 1, 1>>, <<412, 412, 1, 211>>, <<413, 413, 1, 213>>, <<415, 415, 1,
      214>>, <<416, 420, 2, 1>>, <<422, 422, 1, 218>>, <<423, 423, 1, 1>>, <<425, 425, 1, 218>>,
      <<428, 428, 1, 1>>, <<430, 430, 1, 218>>, <<431, 431, 1, 1>>, <<433, 434, 1, 217>>, <<435,
      437, 2, 1>>, <<439, 439, 1, 219>>, <<440, 440, 1, 1>>, <<444, 444, 1, 1>>, <<452, 452, 1,
      2>>, <<453, 453, 1, 1>>, <<455, 455, 1, 2>>, <<456, 456, 1, 1>>, <<458, 458, 1, 2>>, <<459,
      475, 2, 1>>, <<478, 494, 2, 1>>, <<497, 497, 1, 2>>, <<498, 500, 2, 1>>, <<502, 502, 1,
      -97>>, <<503, 503, 1, -56>>, <<504, 542, 2, 1>>, <<544, 544, 1, -130>>, <<546, 562, 2, 1>>,
      <<570, 570, 1, 10795>>, <<571, 571, 1, 1>>, <<573, 573, 1, -163>>, <<574, 574, 1, 10792>>,
      <<577, 577, 1, 1>>, <<579, 579, 1, -195>>, <<580, 580, 1, 69>>, <<581, 581, 1, 71>>, <<582,
      590, 2, 1>>, <<880, 882, 2, 1>>, <<886, 886, 1, 1>>, <<895, 895, 1, 116>>, <<902, 902, 1,
      38>>, <<904, 906, 1, 37>>, <<908, 908, 1, 64>>, <<910, 911, 1, 63>>, <<913, 929, 1, 32>>,
      <<932, 939, 1, 32>>, <<975, 975, 1, 8>>, <<984, 1006, 2, 1>>, <<1012, 1012, 1, -60>>,
      <<1015, 1015, 1, 1>>, <<1017, 1017, 1, -7>>, <<1018, 1018, 1, 1>>, <<1021, 1023, 1, -130>>,
      <<1024, 1039, 1, 80>>, <<1040, 1071, 1, 32>>, <<1120, 1152, 2, 1>>, <<1162, 1214, 2, 1>>,
      <<1216, 1216, 1, 15>>, <<1217, 1229, 2, 1>>, <<1232, 1326, 2, 1>>, <<1329, 1366, 1, 48>>,
      <<4256, 4293, 1, 7264>>, <<4295, 4295, 1, 7264>>, <<4301, 4301, 1, 7264>>, <<5024, 5103, 1,
      38864>>, <<5104, 5109, 1, 8>>, <<7312, 7354, 1, -3008>>, <<7357, 7359, 1, -3008>>, <<7680,
      7828, 2, 1>>, <<7838, 7838, 1, -7615>>, <<7840, 7934, 2, 1>>, <<7944, 7951, 1, -8>>, <<7960,
      7965, 1, -8>>, <<7976, 7983, 1, -8>>, <<7992, 7999, 1, -8>>, <<8008, 8013, 1, -8>>, <<8025,
      8031, 2, -8>>, <<8040, 8047, 1, -8>>, <<8072, 8079, 1, -8>>, <<8088, 8095, 1, -8>>, <<8104,
      8111, 1, -8>>, <<8120, 8121, 1, -8>>, <<8122, 8123, 1, -74>>, <<8124, 8124, 1, -9>>, <<8136,
      8139, 1, -86>>, <<8140, 8140, 1, -9>>, <<8152, 8153, 1, -8>>, <<8154, 8155, 1, -100>>,
      <<8168, 8169, 1, -8>>, <<8170, 8171, 1, -112>>, <<8172, 8172, 1, -7>>, <<8184, 8185, 1,
      -128>>, <<8186, 8187, 1, -126>>, <<8188, 8188, 1, -9>>, <<8486, 8486, 1, -7517>>, <<8490,
      8490, 1, -8383>>, <<8491, 8491, 1, -8262>>, <<8498, 8498, 1, 28>>, <<8544, 8559, 1, 16>>,
      <<8579, 8579, 1, 1>>, <<9398, 9423, 1, 26>>, <<11264, 11311, 1, 48>>, <<11360, 11360, 1,
      1>>, <<11362, 11362, 1, -10743>>, <<11363, 11363, 1, -3814>>, <<11364, 11364, 1, -10727>>,
      <<11367, 11371, 2, 1>>, <<11373, 11373, 1, -10780>>, <<11374, 11374, 1, -10749>>, <<11375,
      11375, 1, -10783>>, <<11376, 11376, 1, -10782>>, <<11378, 11378, 1, 1>>, <<11381, 11381, 1,
      1>>, <<11390, 11391, 1, -10815>>, <<11392, 11490, 2, 1>>, <<11499, 11501, 2, 1>>, <<11506,
      11506, 1, 1>>, <<42560, 42604, 2, 1>>, <<42624, 42650, 2, 1>>, <<42786, 42798, 2, 1>>,
      <<42802, 42862, 2, 1>>, <<42873, 42875, 2, 1>>, <<42877, 42877, 1, -35332>>, <<42878, 42886,
      2, 1>>, <<42891, 42891, 1, 1>>, <<42893, 42893, 1, -42280>>, <<42896, 42898, 2, 1>>,
      <<42902, 42920, 2, 1>>, <<42922, 42922, 1, -42308>>, <<42923, 42923, 1, -42319>>, <<42924,
      42924, 1, -42315>>, <<42925, 42925, 1, -42305>>, <<42926, 42926, 1, -42308>>, <<42928,
      42928, 1, -42258>>, <<42929, 42929, 1, -42282>>, <<42930, 42930, 1, -42261>>, <<42931,
      42931, 1, 928>>, <<42932, 42946, 2, 1>>, <<42948, 42948, 1, -48>>, <<42949, 42949, 1,
      -42307>>, <<42950, 42950, 1, -35384>>, <<42951, 42953, 2, 1>>, <<42960, 42960, 1, 1>>,
      <<42966, 42968, 2, 1>>, <<42997, 42997, 1, 1>>, <<65313, 65338, 1, 32>>, <<66560, 66599, 1,
      40>>, <<66736, 66771, 1, 40>>, <<66928, 66938, 1, 39>>, <<66940, 66954, 1, 39>>, <<66956,
      66962, 1, 39>>, <<66964, 66965, 1, 39>>, <<68736, 68786, 1, 64>>, <<71840, 71871, 1, 32>>,
      <<93760, 93791, 1, 32>>, <<125184, 125217, 1, 34>>>>

\* the cased letters that are not case-ignorable
CasedLetters ==
    <<<<65, 90>>, <<97, 122>>, <<170, 170>>, <<181, 181>>, <<186, 186>>, <<192, 214>>, <<216,
      246>>, <<248, 442>>, <<444, 447>>, <<452, 659>>, <<661, 687>>, <<880, 883>>, <<886, 887>>,
      <<891, 893>>, <<895, 895>>, <<902, 902>>, <<904, 906>>, <<908, 908>>, <<910, 929>>, <<931,
      1013>>, <<1015, 1153>>, <<1162, 1327>>, <<1329, 1366>>, <<1376, 1416>>, <<4256, 4293>>,
      <<4295, 4295>>, <<4301, 4301>>, <<4304, 4346>>, <<4349, 4351>>, <<5024, 5109>>, <<5112,
      5117>>, <<7296, 7304>>, <<7312, 7354>>, <<7357, 7359>>, <<7424, 7467>>, <<7531, 7543>>,
      <<7545, 7578>>, <<7680, 7957>>, <<7960, 7965>>, <<7968, 8005>>, <<8008, 8013>>, <<8016,
      8023>>, <<8025, 8025>>, <<8027, 8027>>, <<8029, 8029>>, <<8031, 8061>>, <<8064, 8116>>,
      <<8118, 8124>>, <<8126, 8126>>, <<8130, 8132>>, <<8134, 8140>>, <<8144, 8147>>, <<8150,
      8155>>, <<8160, 8172>>, <<8178, 8180>>, <<8182, 8188>>, <<8450, 8450>>, <<8455, 8455>>,
      <<8458, 8467>>, <<8469, 8469>>, <<8473, 8477>>, <<8484, 8484>>, <<8486, 8486>>, <<8488,
      8488>>, <<8490, 8493>>, <<8495, 8500>>, <<8505, 8505>>, <<8508, 8511>>, <<8517, 8521>>,
      <<8526, 8526>>, <<8544, 8575>>, <<8579, 8580>>, <<9398, 9449>>, <<11264, 11387>>, <<11390,
      11492>>, <<11499, 11502>>, <<11506, 11507>>, <<11520, 11557>>, <<11559, 11559>>, <<11565,
      11565>>, <<42560, 42605>>, <<42624, 42651>>, <<42786, 42863>>, <<42865, 42887>>, <<42891,
      42894>>, <<42896, 42954>>, <<42960, 42961>>, <<42963, 42963>>, <<42965, 42969>>, <<42997,
      42998>>, <<43002, 43002>>, <<43824, 43866>>, <<43872, 43880>>, <<43888, 43967>>, <<64256,
      64262>>, <<64275, 64279>>, <<65313, 65338>>, <<65345, 65370>>, <<66560, 66639>>, <<66736,
      66771>>, <<66776, 66811>>, <<66928, 66938>>, <<66940, 66954>>, <<66956, 66962>>, <<66964,
      66965>>, <<66967, 66977>>, <<66979, 66993>>, <<66995, 67001>>, <<67003, 67004>>, <<68736,
      68786>>, <<68800, 68850>>, <<71840, 71903>>, <<93760, 93823>>, <<119808, 119892>>, <<119894,
      119964>>, <<119966, 119967>>, <<119970, 119970>>, <<119973, 119974>>, <<119977, 119980>>,
      <<119982, 119993>>, <<119995, 119995>>, <<119997, 120003>>, <<120005, 120069>>, <<120071,
      120074>>, <<120077, 120084>>, <<120086, 120092>>, <<120094, 120121>>, <<120123, 120126>>,
      <<120128, 120132>>, <<120134, 120134>>, <<120138, 120144>>, <<120146, 120485>>, <<120488,
      120512>>, <<120514, 120538>>, <<120540, 120570>>, <<120572, 120596>>, <<120598, 120628>>,
      <<120630, 120654>>, <<120656, 120686>>, <<120688, 120712>>, <<120714, 120744>>, <<120746,
      120770>>, <<120772, 120779>>, <<122624, 122633>>, <<122635, 122654>>, <<125184, 125251>>,
      <<127280, 127305>>, <<127312, 127337>>, <<127344, 127369>>>>

\* the case-ignorable characters
CaseIgnorable ==
    <<<<39, 39>>, <<46, 46>>, <<58, 58>>, <<94, 94>>, <<96, 96>>, <<168, 168>>, <<173, 173>>,
      <<175, 175>>, <<180, 180>>, <<183, 184>>, <<688, 879>>, <<884, 885>>, <<890, 890>>, <<900,
      901>>, <<903, 903>>, <<1155, 1161>>, <<1369, 1369>>, <<1375, 1375>>, <<1425, 1469>>, <<1471,
      1471>>, <<1473, 1474>>, <<1476, 1477>>, <<1479, 1479>>, <<1524, 1524>>, <<1536, 1541>>,
      <<1552, 1562>>, <<1564, 1564>>, <<1600, 1600>>, <<1611, 1631>>, <<1648, 1648>>, <<1750,
      1757>>, <<1759, 1768>>, <<1770, 1773>>, <<1807, 1807>>, <<1809, 1809>>, <<1840, 1866>>,
      <<1958, 1968>>, <<2027, 2037>>, <<2042, 2042>>, <<2045, 2045>>, <<2070, 2093>>, <<2137,
      2139>>, <<2184, 2184>>, <<2192, 2193>>, <<2200, 2207>>, <<2249, 2306>>, <<2362, 2362>>,
      <<2364, 2364>>, <<2369, 2376>>, <<2381, 2381>>, <<2385, 2391>>, <<2402, 2403>>, <<2417,
      2417>>, <<2433, 2433>>, <<2492, 2492>>, <<2497, 2500>>, <<2509, 2509>>, <<2530, 2531>>,
      <<2558, 2558>>, <<2561, 2562>>, <<2620, 2620>>, <<2625, 2626>>, <<2631, 2632>>, <<2635,
      2637>>, <<2641, 2641>>, <<2672, 2673>>, <<2677, 2677>>, <<2689, 2690>>, <<2748, 2748>>,
      <<2753, 2757>>, <<2759, 2760>>, <<2765, 2765>>, <<2786, 2787>>, <<2810, 2815>>, <<2817,
      2817>>, <<2876, 2876>>, <<2879, 2879>>, <<2881, 2884>>, <<2893, 2893>>, <<2901, 2902>>,
      <<2914, 2915>>, <<2946, 2946>>, <<3008, 3008>>, <<3021, 3021>>, <<3072, 3072>>, <<3076,
      3076>>, <<3132, 3132>>, <<3134, 3136>>, <<3142, 3144>>, <<3146, 3149>>, <<3157, 3158>>,
      <<3170, 3171>>, <<3201, 3201>>, <<3260, 3260>>, <<3263, 3263>>, <<3270, 3270>>, <<3276,
      3277>>, <<3298, 3299>>, <<3328, 3329>>, <<3387, 3388>>, <<3393, 3396>>, <<3405, 3405>>,
      <<3426, 3427>>, <<3457, 3457>>, <<3530, 3530>>, <<3538, 3540>>, <<3542, 3542>>, <<3633,
      3633>>, <<3636, 3642>>, <<3654, 3662>>, <<3761, 3761>>, <<3764, 3772>>, <<3782, 3782>>,
      <<3784, 3789>>, <<3864, 3865>>, <<3893, 3893>>, <<3895, 3895>>, <<3897, 3897>>, <<3953,
      3966>>, <<3968, 3972>>, <<3974, 3975>>, <<3981, 3991>>, <<3993, 4028>>, <<4038, 4038>>,
      <<4141, 4144>>, <<4146, 4151>>, <<4153, 4154>>, <<4157, 4158>>, <<4184, 4185>>, <<4190,
      4192>>, <<4209, 4212>>, <<4226, 4226>>, <<4229, 4230>>, <<4237, 4237>>, <<4253, 4253>>,
      <<4348, 4348>>, <<4957, 4959>>, <<5906, 5908>>, <<5938, 5939>>, <<5970, 5971>>, <<6002,
      6003>>, <<6068, 6069>>, <<6071, 6077>>, <<6086, 6086>>, <<6089, 6099>>, <<6103, 6103>>,
      <<6109, 6109>>, <<6155, 6159>>, <<6211, 6211>>, <<6277, 6278>>, <<6313, 6313>>, <<6432,
      6434>>, <<6439, 6440>>, <<6450, 6450>>, <<6457, 6459>>, <<6679, 6680>>, <<6683, 6683>>,
      <<6742, 6742>>, <<6744, 6750>>, <<6752, 6752>>, <<6754, 6754>>, <<6757, 6764>>, <<6771,
      6780>>, <<6783, 6783>>, <<6823, 6823>>, <<6832, 6862>>, <<6912, 6915>>, <<6964, 6964>>,
      <<6966, 6970>>, <<6972, 6972>>, <<6978, 6978>>, <<7019, 7027>>, <<7040, 7041>>, <<7074,
      7077>>, <<7080, 7081>>, <<7083, 7085>>, <<7142, 7142>>, <<7144, 7145>>, <<7149, 7149>>,
      <<7151, 7153>>, <<7212, 7219>>, <<7222, 7223>>, <<7288, 7293>>, <<7376, 7378>>, <<7380,
      7392>>, <<7394, 7400>>, <<7405, 7405>>, <<7412, 7412>>, <<7416, 7417>>, <<7468, 7530>>,
      <<7544, 7544>>, <<7579, 7679>>, <<8125, 8125>>, <<8127, 8129>>, <<8141, 8143>>, <<8157,
      8159>>, <<8173, 8175>>, <<8189, 8190>>, <<8203, 8207>>, <<8216, 8217>>, <<8228, 8228>>,
      <<8231, 8231>>, <<8234, 8238>>, <<8288, 8292>>, <<8294, 8303>>, <<8305, 8305>>, <<8319,
      8319>>, <<8336, 8348>>, <<8400, 8432>>, <<11388, 11389>>, <<11503, 11505>>, <<11631,
      11631>>, <<11647, 11647>>, <<11744, 11775>>, <<11823, 11823>>, <<12293, 12293>>, <<12330,
      12333>>, <<12337, 12341>>, <<12347, 12347>>, <<12441, 12446>>, <<12540, 12542>>, <<40981,
      40981>>, <<42232, 42237>>, <<42508, 42508>>, <<42607, 42610>>, <<42612, 42621>>, <<42623,
      42623>>, <<42652, 42655>>, <<42736, 42737>>, <<42752, 42785>>, <<42864, 42864>>, <<42888,
      42890>>, <<42994, 42996>>, <<43000, 43001>>, <<43010, 43010>>, <<43014, 43014>>, <<43019,
      43019>>, <<43045, 43046>>, <<43052, 43052>>, <<43204, 43205>>, <<43232, 43249>>, <<43263,
      43263>>, <<43302, 43309>>, <<43335, 43345>>, <<43392, 43394>>, <<43443, 43443>>, <<43446,
      43449>>, <<43452, 43453>>, <<43471, 43471>>, <<43493, 43494>>, <<43561, 43566>>, <<43569,
      43570>>, <<43573, 43574>>, <<43587, 43587>>, <<43596, 43596>>, <<43632, 43632>>, <<43644,
      43644>>, <<43696, 43696>>, <<43698, 43700>>, <<43703, 43704>>, <<43710, 43711>>, <<43713,
      43713>>, <<43741, 43741>>, <<43756, 43757>>, <<43763, 43764>>, <<43766, 43766>>, <<43867,
      43871>>, <<43881, 43883>>, <<44005, 44005>>, <<44008, 44008>>, <<44013, 44013>>, <<64286,
      64286>>, <<64434, 64450>>, <<65024, 65039>>, <<65043, 65043>>, <<65056, 65071>>, <<65106,
      65106>>, <<65109, 65109>>, <<65279, 65279>>, <<65287, 65287>>, <<65294, 65294>>, <<65306,
      65306>>, <<65342, 65342>>, <<65344, 65344>>, <<65392, 65392>>, <<65438, 65439>>, <<65507,
      65507>>, <<65529, 65531>>, <<66045, 66045>>, <<66272, 66272>>, <<66422, 66426>>, <<67456,
      67461>>, <<67463, 67504>>, <<67506, 67514>>, <<68097, 68099>>, <<68101, 68102>>, <<68108,
      68111>>, <<68152, 68154>>, <<68159, 68159>>, <<68325, 68326>>, <<68900, 68903>>, <<69291,
      69292>>, <<69446, 69456>>, <<69506, 69509>>, <<69633, 69633>>, <<69688, 69702>>, <<69744,
      69744>>, <<69747, 69748>>, <<69759, 69761>>, <<69811, 69814>>, <<69817, 69818>>, <<69821,
      69821>>, <<69826, 69826>>, <<69837, 69837>>, <<69888, 69890>>, <<69927, 69931>>, <<69933,
      69940>>, <<70003, 70003>>, <<70016, 70017>>, <<70070, 70078>>, <<70089, 70092>>, <<70095,
      70095>>, <<70191, 70193>>, <<70196, 70196>>, <<70198, 70199>>, <<70206, 70206>>, <<70367,
      70367>>, <<70371, 70378>>, <<70400, 70401>>, <<70459, 70460>>, <<70464, 70464>>, <<70502,
      70508>>, <<70512, 70516>>, <<70712, 70719>>, <<70722, 70724>>, <<70726, 70726>>, <<70750,
      70750>>, <<70835, 70840>>, <<70842, 70842>>, <<70847, 70848>>, <<70850, 70851>>, <<71090,
      71093>>, <<71100, 71101>>, <<71103, 71104>>, <<71132, 71133>>, <<71219, 71226>>, <<71229,
      71229>>, <<71231, 71232>>, <<71339, 71339>>, <<71341, 71341>>, <<71344, 71349>>, <<71351,
      71351>>, <<71453, 71455>>, <<71458, 71461>>, <<71463, 71467>>, <<71727, 71735>>, <<71737,
      71738>>, <<71995, 71996>>, <<71998, 71998>>, <<72003, 72003>>, <<72148, 72151>>, <<72154,
      72155>>, <<72160, 72160>>, <<72193, 72202>>, <<72243, 72248>>, <<72251, 72254>>, <<72263,
      72263>>, <<72273, 72278>>, <<72281, 72283>>, <<72330, 72342>>, <<72344, 72345>>, <<72752,
      72758>>, <<72760, 72765>>, <<72767, 72767>>, <<72850, 72871>>, <<72874, 72880>>, <<72882,
      72883>>, <<72885, 72886>>, <<73009, 73014>>, <<73018, 73018>>, <<73020, 73021>>, <<73023,
      73029>>, <<73031, 73031>>, <<73104, 73105>>, <<73109, 73109>>, <<73111, 73111>>, <<73459,
      73460>>, <<78896, 78904>>, <<92912, 92916>>, <<92976, 92982>>, <<92992, 92995>>, <<94031,
      94031>>, <<94095, 94111>>, <<94176, 94177>>, <<94179, 94180>>, <<110576, 110579>>, <<110581,
      110587>>, <<110589, 110590>>, <<113821, 113822>>, <<113824, 113827>>, <<118528, 118573>>,
      <<118576, 118598>>, <<119143, 119145>>, <<119155, 119170>>, <<119173, 119179>>, <<119210,
      119213>>, <<119362, 119364>>, <<121344, 121398>>, <<121403, 121452>>, <<121461, 121461>>,
      <<121476, 121476>>, <<121499, 121503>>, <<121505, 121519>>, <<122880, 122886>>, <<122888,
      122904>>, <<122907, 122913>>, <<122915, 122916>>, <<122918, 122922>>, <<123184, 123197>>,
      <<123566, 123566>>, <<123628, 123631>>, <<125136, 125142>>, <<125252, 125259>>, <<127995,
      127999>>, <<917505, 917505>>, <<917536, 917631>>, <<917760, 917999>>>>

InRanges(n, ranges) == \E k \in 1..Len(ranges) : ranges[k][1] <= n /\ n <= ranges[k][2]

\* str.lower() of a code point that lower-cases on its own
LowerPoint(n) ==
    IF 65 <= n /\ n <= 90 THEN n + 32
    ELSE IF n < 128 THEN n
    ELSE LET Hit(k) == /\ LowerRuns[k][1] <= n /\ n <= LowerRuns[k][2]
                       /\ (n - LowerRuns[k][1]) % LowerRuns[k][3] = 0
         IN IF \E k \in 1..Len(LowerRuns) : Hit(k)
            THEN n + LowerRuns[CHOOSE k \in 1..Len(LowerRuns) : Hit(k)][4]
            ELSE n

\* str.lower(), one character that lower-cases on its own
LowerChar(c) ==
    LET n == CodePoint(c)
        m == LowerPoint(n)
    IN IF Len(c) = 1 /\ m = n THEN c ELSE Char(m)

IsCased(c) == InRanges(CodePoint(c), CasedLetters)
IsCaseIgnorable(c) == InRanges(CodePoint(c), CaseIgnorable)

\* U+03A3 at position i lower-cases to the final sigma U+03C2 when a cased
\* letter precedes it and none follows, case-ignorable characters skipped
FinalSigma(s, i) ==
    /\ \E j \in 1..(i - 1) :
           /\ IsCased(s[j])
           /\ \A k \in (j + 1)..(i - 1) : IsCaseIgnorable(s[k])
    /\ ~\E j \in (i + 1)..Len(s) :
           /\ IsCased(s[j])
           /\ \A k \in (i + 1)..(j - 1) : IsCaseIgnorable(s[k])

\* str.lower() of the character at position i: U+0130 becomes two characters
LowerAt(s, i) ==
    IF s[i] = "(U+0130)" THEN <<"i", "(U+0307)">>
    ELSE IF s[i] = "(U+03A3)"
    THEN <<IF FinalSigma(s, i) THEN "(U+03C2)" ELSE "(U+03C3)">>
    ELSE <<LowerChar(s[i])>>

\* str.lower(), of the characters at positions i..j and of the whole text
RECURSIVE LowerFrom(_, _, _)
LowerFrom(s, i, j) ==
    IF i > j THEN <<>>
    ELSE IF i = j THEN LowerAt(s, i)
    ELSE LowerFrom(s, i, (i + j) \div 2) \o LowerFrom(s, (i + j) \div 2 + 1, j)
Lower(s) == LowerFrom(s, 1, Len(s))

\* the characters str.split() and str.strip() treat as whitespace
IsSpace(c) == InRanges(CodePoint(c), WhiteSpace)

\* str.split() with no separator: the maximal runs of non-whitespace
RECURSIVE SplitFrom(_, _, _, _)
SplitFrom(s, i, cur, acc) ==
    IF i > Len(s)
    THEN IF cur = <<>> THEN acc ELSE Append(acc, cur)
    ELSE IF IsSpace(s[i])
         THEN SplitFrom(s, i + 1, <<>>, IF cur = <<>> THEN acc ELSE Append(acc, cur))
         ELSE SplitFrom(s, i + 1, Append(cur, s[i]), acc)

Split(s) == SplitFrom(s, 1, <<>>, <<>>)

\* needle in haystack
Contains(haystack, needle) ==
    \E i \in 0..(Len(haystack) - Len(needle)) :
        SubSeq(haystack, i + 1, i + Len(needle)) = needle

\* sep.join(parts)
RECURSIVE Join(_, _)
Join(sep, parts) ==
    IF parts = <<>> THEN <<>>
    ELSE IF Len(parts) = 1 THEN parts[1]
    ELSE parts[1] \o sep \o Join(sep, Tail(parts))

\* str(n) / f"{n}" of an integer
Digits == <<"0","1","2","3","4","5","6","7","8","9">>
RECURSIVE StrNat(_)
StrNat(n) == IF n < 10 THEN <<Digits[n + 1]>> ELSE StrNat(n \div 10) \o <<Digits[(n % 10) + 1]>>
Str(n) == IF n < 0 THEN <<"-">> \o StrNat(0 - n) ELSE StrNat(n)

\* f"{n:0{width}d}" of a natural: zeros to the left up to the width
RECURSIVE ZeroPad(_, _)
ZeroPad(text, width) == IF Len(text) >= width THEN text ELSE ZeroPad(<<"0">> \o text, width)

\* ---------------------------------------------------------------- calendar
\* A date is an integer: day 1 of the model is 2024-01-01, day d + 1 the day
\* after day d. The proleptic Gregorian ordinal of a date is as in datetime.
IsLeap(year) == year % 4 = 0 /\ (year % 100 # 0 \/ year % 400 = 0)
DaysInMonthTable == <<31, 28, 31, 30, 31, 30, 31, 31, 30, 31, 30, 31>>
DaysBeforeMonthTable == <<0, 31, 59, 90, 120, 151, 181, 212, 243, 273, 304, 334>>
days_in_month(year, month) ==
    IF month = 2 /\ IsLeap(year) THEN 29 ELSE DaysInMonthTable[month]
days_before_month(year, month) ==
    DaysBeforeMonthTable[month] + (IF month > 2 /\ IsLeap(year) THEN 1 ELSE 0)
days_before_year(year) ==
    LET y == year - 1 IN y * 365 + (y \div 4) - (y \div 100) + (y \div 400)
ymd2ord(year, month, day) == days_before_year(year) + days_before_month(year, month) + day

\* date.min and date.max as ordinals, and the ordinal of day 0 of the model
MinOrdinal == 1
MaxOrdinal == ymd2ord(9999, 12, 31)
EpochOrdinal == ymd2ord(2023, 12, 31)

\* the (year, month, day) of an ordinal
ord2ymd(ordinal) ==
    LET n0 == ordinal - 1
        n400 == n0 \div 146097
        r400 == n0 % 146097
        n100 == r400 \div 36524
        r100 == r400 % 36524
        n4 == r100 \div 1461
        r4 == r100 % 1461
        n1 == r4 \div 365
        n == r4 % 365
        year == n400 * 400 + 1 + n100 * 100 + n4 * 4 + n1
        leapyear == n1 = 3 /\ (n4 # 24 \/ n100 = 3)
        guess == (n + 50) \div 32
        before(m) == DaysBeforeMonthTable[m] + (IF m > 2 /\ leapyear THEN 1 ELSE 0)
        month == IF before(guess) > n THEN guess - 1 ELSE guess
    IN IF n1 = 4 \/ n100 = 4 THEN <<year - 1, 12, 31>>
       ELSE <<year, month, n - before(month) + 1>>

\* date.isoformat()
IsoFormat(d) ==
    LET ymd == ord2ymd(d + EpochOrdinal)
    IN ZeroPad(StrNat(ymd[1]), 4) \o <<"-">> \o ZeroPad(StrNat(ymd[2]), 2) \o <<"-">>
       \o ZeroPad(StrNat(ymd[3]), 2)

\* the ordinal of the Monday that starts ISO week 1 of the year
isoweek1monday(year) ==
    LET firstday == ymd2ord(year, 1, 1)
        firstweekday == (firstday + 6) % 7
        week1monday == firstday - firstweekday
    IN IF firstweekday > 3 THEN week1monday + 7 ELSE week1monday

\* the ISO weeks of a year: 53 when 1 January is a Thursday, or a Wednesday of a
\* leap year, else 52
iso_weeks(year) ==
    LET firstweekday == (ymd2ord(year, 1, 1) + 6) % 7
    IN IF firstweekday = 3 \/ (firstweekday = 2 /\ IsLeap(year)) THEN 53 ELSE 52

\* str.strip()
RECURSIVE LStrip(_)
LStrip(s) == IF s # <<>> /\ IsSpace(Head(s)) THEN LStrip(Tail(s)) ELSE s
RECURSIVE RStrip(_)
RStrip(s) == IF s # <<>> /\ IsSpace(s[Len(s)]) THEN RStrip(SubSeq(s, 1, Len(s) - 1)) ELSE s
Strip(s) == RStrip(LStrip(s))

\* str.split(sep) for a one-character separator: empty pieces are kept
RECURSIVE SplitOnFrom(_, _, _, _, _)
SplitOnFrom(s, sep, i, cur, acc) ==
    IF i > Len(s) THEN Append(acc, cur)
    ELSE IF s[i] = sep
         THEN SplitOnFrom(s, sep, i + 1, <<>>, Append(acc, cur))
         ELSE SplitOnFrom(s, sep, i + 1, Append(cur, s[i]), acc)
SplitOn(s, sep) == SplitOnFrom(s, sep, 1, <<>>, <<>>)

\* str.replace(old, new) for one-character old and new
Replace(s, old, new) == [i \in 1..Len(s) |-> IF s[i] = old THEN new ELSE s[i]]

\* the value of a decimal digit of any script, -1 for any other character
DigitValue(c) ==
    LET n == CodePoint(c)
        Hit(k) == DecimalZeros[k] <= n /\ n <= DecimalZeros[k] + 9
    IN IF \E k \in 1..Len(DecimalZeros) : Hit(k)
       THEN n - DecimalZeros[CHOOSE k \in 1..Len(DecimalZeros) : Hit(k)]
       ELSE -1

\* the value of an ASCII digit, -1 for any other character
AsciiDigitValue(c) ==
    IF \E i \in 1..10 : Digits[i] = c THEN (CHOOSE i \in 1..10 : Digits[i] = c) - 1 ELSE -1

IsDigits(s) == s # <<>> /\ \A i \in 1..Len(s) : DigitValue(s[i]) >= 0
IsAsciiDigits(s) == s # <<>> /\ \A i \in 1..Len(s) : AsciiDigitValue(s[i]) >= 0

\* the number a run of digits spells; the integers of the model have 32 bits, and
\* every number from IntCap on reads as IntCap
IntCap == 1000000000
RECURSIVE DigitsValue(_)
DigitsValue(s) ==
    IF s = <<>> THEN 0
    ELSE LET front == DigitsValue(SubSeq(s, 1, Len(s) - 1))
         IN IF front >= IntCap \div 10 THEN IntCap
            ELSE 10 * front + DigitValue(s[Len(s)])

\* the white space int() skips around a number: str.isspace() without the four
\* separators U+001C to U+001F
IsIntSpace(c) == IsSpace(c) /\ CodePoint(c) \notin 28..31
RECURSIVE IntLStrip(_)
IntLStrip(s) == IF s # <<>> /\ IsIntSpace(Head(s)) THEN IntLStrip(Tail(s)) ELSE s
RECURSIVE IntRStrip(_)
IntRStrip(s) ==
    IF s # <<>> /\ IsIntSpace(s[Len(s)]) THEN IntRStrip(SubSeq(s, 1, Len(s) - 1)) ELSE s

\* digits in groups joined by single underscores
IsGroupedDigits(s) ==
    /\ s # <<>>
    /\ \A i \in 1..Len(s) :
           \/ DigitValue(s[i]) >= 0
           \/ /\ s[i] = "_" /\ 1 < i /\ i < Len(s)
              /\ DigitValue(s[i - 1]) >= 0 /\ DigitValue(s[i + 1]) >= 0
GroupedValue(s) == LET IsDigit(c) == c # "_" IN DigitsValue(SelectSeq(s, IsDigit))

\* the longest run of digits int() converts: the interpreter's default limit on
\* the conversion of a text to an integer, which the program never changes
IntMaxStrDigits == 4300

\* int(text): <<n>>, or <<>> where int() raises ValueError: the text is not a
\* number, or it has more digits than the limit (every digit counts, leading
\* zeros too, but not the sign, the underscores or the white space around it)
ParseInt(s) ==
    LET text == IntRStrip(IntLStrip(s))
        signed == text # <<>> /\ text[1] \in {"+", "-"}
        body == IF signed THEN Tail(text) ELSE text
        digits == Cardinality({i \in 1..Len(body) : body[i] # "_"})
    IN IF ~IsGroupedDigits(body) THEN <<>>
       ELSE IF digits > IntMaxStrDigits THEN <<>>
       ELSE IF signed /\ text[1] = "-" THEN <<0 - GroupedValue(body)>>
       ELSE <<GroupedValue(body)>>

\* the directives %H and %M of strptime as _strptime matches them:
\* 2[0-3]|[0-1]\d|\d and [0-5]\d|\d, where \d is a decimal digit of any script
MatchesHour(s) ==
    \/ Len(s) = 1 /\ DigitValue(s[1]) >= 0
    \/ Len(s) = 2 /\ s[1] = "2" /\ s[2] \in {"0", "1", "2", "3"}
    \/ Len(s) = 2 /\ s[1] \in {"0", "1"} /\ DigitValue(s[2]) >= 0
MatchesMinute(s) ==
    \/ Len(s) = 1 /\ DigitValue(s[1]) >= 0
    \/ Len(s) = 2 /\ s[1] \in {"0", "1", "2", "3", "4", "5"} /\ DigitValue(s[2]) >= 0

\* datetime.strptime(text, "%H:%M").time() as minutes since midnight: <<m>>, or
\* <<>> where strptime raises ValueError
ParseTime(s) ==
    LET parts == SplitOn(s, ":")
    IN IF Len(parts) = 2 /\ MatchesHour(parts[1]) /\ MatchesMinute(parts[2])
       THEN <<60 * DigitsValue(parts[1]) + DigitsValue(parts[2])>>
       ELSE <<>>

\* --------------------------------------------------------------- sequences
\* seq[:n] for n >= 0
Take(seq, n) == SubSeq(seq, 1, Min(n, Len(seq)))

\* seq[-n:] as Python evaluates it: -0 is 0, so seq[-0:] is the whole list
LastSlice(seq, n) ==
    IF n = 0 THEN seq
    ELSE SubSeq(seq, Max(Len(seq) - n, 0) + 1, Len(seq))

RECURSIVE Flatten(_)
Flatten(seqs) == IF seqs = <<>> THEN <<>> ELSE Head(seqs) \o Flatten(Tail(seqs))

\* ------------------------------------------------------------------- dict
\* position of key k in the dict, 0 when absent
Lookup(dict, k) ==
    IF \E i \in 1..Len(dict) : dict[i].key = k
    THEN CHOOSE i \in 1..Len(dict) : dict[i].key = k
    ELSE 0

\* k in dict
Has(dict, k) == Lookup(dict, k) # 0

\* dict[k]
DictGet(dict, k) == dict[Lookup(dict, k)].val

\* dict[k] = v: replaces in place, or appends a new entry
DictSet(dict, k, v) ==
    IF Has(dict, k)
    THEN [dict EXCEPT ![Lookup(dict, k)].val = v]
    ELSE Append(dict, [key |-> k, val |-> v])

\* dict.values()
DictValues(dict) == [i \in 1..Len(dict) |-> dict[i].val]

\* --------------------------------------------------------------- schemas
\* Field(ge=1, le=5) on energy_level
EnergyLevelValid(level) == 1 <= level /\ level <= 5

\* DailySession(date=d): a fresh id, nothing recorded
DailySession(d, id) ==
    [id |-> id, date |-> d, morning_context |-> <<>>, evening_reflection |-> <<>>,
     decisions |-> <<>>, energy_pattern |-> <<>>]

\* EveningReflection(...): the energy pattern is List[tuple[time, int]], no range
EveningReflection(payload) ==
    [actual_focus |-> payload.actual_focus, wins |-> payload.wins,
     challenges |-> payload.challenges, tomorrow_intent |-> payload.tomorrow_intent,
     energy_pattern |-> payload.energy_pattern]

\* Decision(session_id=..., ...): timestamp defaults to utcnow()
Decision_unlinked(session_id, payload, t) ==
    [session_id |-> session_id + 1, question |-> payload.question, context |-> payload.context,
     options_considered |-> payload.options, timestamp |-> t]
Decision(session_id, payload, t) ==
    [session_id |-> session_id, question |-> payload.question, context |-> payload.context,
     options_considered |-> payload.options, timestamp |-> t]

\* PlannerEvent(session_id=..., description=...)
PlannerEvent(session_id, description, t) ==
    [timestamp |-> t, session_id |-> session_id, description |-> description]

\* ----------------------------------------------------------------- store
\* The store as a value: the operations below map a store to a store.
St == [sessions |-> store_sessions, heap |-> heap, uuids |-> uuids]

\* session_date not in self._sessions
session_absent(st, d) == ~Has(st.sessions, d)

\* self._sessions[session_date] = DailySession(date=session_date)
create_session(st, d) ==
    [sessions |-> DictSet(st.sessions, d, Len(st.heap) + 1),
     heap |-> Append(st.heap, DailySession(d, st.uuids + 1)),
     uuids |-> st.uuids + 1]

\* return self._sessions[session_date]
session_ref(st, d) == DictGet(st.sessions, d)

\* get_or_create_session: the store after the call
get_or_create_session_overwrite(st, d) == create_session(st, d)
get_or_create_session(st, d) ==
    IF session_absent(st, d) THEN create_session(st, d) ELSE st

\* session.morning_context = context; session.energy_pattern.append((utcnow().time(), level))
set_morning_context(st, ref, context, t) ==
    [st EXCEPT !.heap[ref].morning_context = <<context>>,
               !.heap[ref].energy_pattern = Append(@, <<t, context.energy_level>>)]

\* session.evening_reflection = reflection; extend the timeline when the pattern is non-empty
set_evening_reflection_replace(st, ref, reflection) ==
    [st EXCEPT !.heap[ref].evening_reflection = <<reflection>>,
               !.heap[ref].energy_pattern = reflection.energy_pattern]
set_evening_reflection(st, ref, reflection) ==
    [st EXCEPT !.heap[ref].evening_reflection = <<reflection>>,
               !.heap[ref].energy_pattern =
                   IF reflection.energy_pattern # <<>>
                   THEN @ \o reflection.energy_pattern
                   ELSE @]

\* session.decisions.append(decision)
append_decision(st, ref, decision) ==
    [st EXCEPT !.heap[ref].decisions = Append(@, decision)]

\* self._sessions[session_date] = session
store_back(st, d, ref) == [st EXCEPT !.sessions = DictSet(@, d, ref)]

update_morning_context(st, d, context, t) ==
    LET s1 == get_or_create_session(st, d)
        ref == session_ref(s1, d)
    IN store_back(set_morning_context(s1, ref, context, t), d, ref)

update_evening_reflection(st, d, reflection) ==
    LET s1 == get_or_create_session(st, d)
        ref == session_ref(s1, d)
    IN store_back(set_evening_reflection(s1, ref, reflection), d, ref)

add_decision(st, d, decision) ==
    LET s1 == get_or_create_session(st, d)
        ref == session_ref(s1, d)
    IN store_back(append_decision(s1, ref, decision), d, ref)

\* the session stored for date d (the object the dict refers to)
SessionOf(st, d) == st.heap[session_ref(st, d)]

\* list.sort(key=..., reverse=True) / sorted(..., reverse=True) on [k, v] pairs:
\* stable, so equal keys keep their original order
RECURSIVE InsertDesc(_, _)
InsertDesc(sorted, x) ==
    IF sorted = <<>> THEN <<x>>
    ELSE IF Head(sorted).k >= x.k
         THEN <<Head(sorted)>> \o InsertDesc(Tail(sorted), x)
         ELSE <<x>> \o sorted

RECURSIVE SortDescPairs(_)
SortDescPairs(pairs) ==
    IF pairs = <<>> THEN <<>>
    ELSE InsertDesc(SortDescPairs(SubSeq(pairs, 1, Len(pairs) - 1)), pairs[Len(pairs)])

SortByDateDesc(ss) ==
    LET sorted == SortDescPairs([i \in 1..Len(ss) |-> [k |-> ss[i].date, v |-> ss[i]]])
    IN [i \in 1..Len(sorted) |-> sorted[i].v]

SortByTimestampDesc(ds) ==
    LET sorted == SortDescPairs([i \in 1..Len(ds) |-> [k |-> ds[i].timestamp, v |-> ds[i]]])
    IN [i \in 1..Len(sorted) |-> sorted[i].v]

\* list_sessions(): all sessions, newest date first
list_sessions(st) ==
    SortByDateDesc([i \in 1..Len(st.sessions) |-> st.heap[st.sessions[i].val]])

\* recent_decisions(limit): every session's decisions, newest timestamp first, cut to limit
recent_decisions_first_session(st, limit) ==
    LET ss == list_sessions(st)
    IN Take(SortByTimestampDesc(IF ss = <<>> THEN <<>> ELSE ss[1].decisions), limit)
recent_decisions(st, limit) ==
    LET ss == list_sessions(st)
        all == Flatten([i \in 1..Len(ss) |-> ss[i].decisions])
    IN Take(SortByTimestampDesc(all), limit)

\* recent_events(limit): self._events[-limit:]
recent_events(events, limit) == LastSlice(events, limit)

\* ---------------------------------------------------------------- memory
\* the window of get_context_for_date: memories[-5:]
ContextWindow == 5
\* the default limit of search_memories
DefaultSearchLimit == 5
\* the default limit of recent_decisions
DefaultDecisionLimit == 5

\* a metadata mapping {k1: v1, ...} as a dict
Meta(pairs) == [i \in 1..Len(pairs) |-> [key |-> pairs[i][1], val |-> pairs[i][2]]]

\* metadata.get(k): <<>> for None, <<v>> for a value
MetaGet(metadata, k) == IF Has(metadata, k) THEN <<DictGet(metadata, k)>> ELSE <<>>

\* Python truthiness of metadata.get(k): None and the empty string are falsy
Truthy(opt) == opt # <<>> /\ opt[1] # <<>>

\* metadata.get("session_id") or metadata.get("date") or date.today().isoformat(),
\* then str() of it (the identity on the strings the model passes)
bucket_key_date_first(metadata, day) ==
    IF Truthy(MetaGet(metadata, "date")) THEN MetaGet(metadata, "date")[1]
    ELSE IF Truthy(MetaGet(metadata, "session_id")) THEN MetaGet(metadata, "session_id")[1]
    ELSE IsoFormat(day)
bucket_key(metadata, day) ==
    IF Truthy(MetaGet(metadata, "session_id")) THEN MetaGet(metadata, "session_id")[1]
    ELSE IF Truthy(MetaGet(metadata, "date")) THEN MetaGet(metadata, "date")[1]
    ELSE IsoFormat(day)

MemoryRecord(user_input, ai_response, metadata, t) ==
    [user_input |-> user_input, ai_response |-> ai_response, metadata |-> metadata,
     created_at |-> t]

\* self._sessions.setdefault(str(session_id), []).append(record)
add_interaction(mem, user_input, ai_response, metadata, day, t) ==
    LET key == bucket_key(metadata, day)
        old == IF Has(mem, key) THEN DictGet(mem, key) ELSE <<>>
    IN DictSet(mem, key, Append(old, MemoryRecord(user_input, ai_response, metadata, t)))

\* {token.lower() for token in query.split() if token}
query_tokens(query) == {Lower(Split(query)[i]) : i \in 1..Len(Split(query))}

\* all(token in haystack for token in tokens), haystack the lower-cased "input response"
record_matches_any(record, tokens) ==
    LET haystack == Lower(record.user_input \o <<" ">> \o record.ai_response)
    IN \E token \in tokens : Contains(haystack, token)
record_matches(record, tokens) ==
    LET haystack == Lower(record.user_input \o <<" ">> \o record.ai_response)
    IN \A token \in tokens : Contains(haystack, token)

\* the nested scan: buckets in dict order, records in list order; a match is
\* appended and then the length is compared with limit
RECURSIVE scan_records(_, _, _, _, _)
scan_records(records, i, tokens, limit, matches) ==
    IF i > Len(records) THEN matches
    ELSE IF record_matches(records[i], tokens)
         THEN LET more == Append(matches, records[i].ai_response)
              IN IF Len(more) >= limit THEN more
                 ELSE scan_records(records, i + 1, tokens, limit, more)
         ELSE scan_records(records, i + 1, tokens, limit, matches)

search_memories(mem, query, limit) ==
    scan_records(Flatten(DictValues(mem)), 1, query_tokens(query), limit, <<>>)

\* get_context_for_date(target_date)["recent_memories"]
get_context_for_date_oldest(mem, d) ==
    LET memories == IF Has(mem, IsoFormat(d)) THEN DictGet(mem, IsoFormat(d)) ELSE <<>>
        recent == Take(memories, ContextWindow)
    IN [i \in 1..Len(recent) |-> recent[i].ai_response]
get_context_for_date(mem, d) ==
    LET memories == IF Has(mem, IsoFormat(d)) THEN DictGet(mem, IsoFormat(d)) ELSE <<>>
        recent == LastSlice(memories, ContextWindow)
    IN [i \in 1..Len(recent) |-> recent[i].ai_response]

\* ----------------------------------------------------------------- tasks
Task(id, title, due) ==
    [id |-> id, title |-> title, due_date |-> <<due>>, status |-> <<"n","o","t","_","s","t","a","r","t","e","d">>,
     source |-> <<"n","o","t","i","o","n">>]

\* upsert_tasks: self._tasks[task.id] = task, for each task in order
upsert_tasks_append(tasks, new) ==
    tasks \o [i \in 1..Len(new) |-> [key |-> new[i].id, val |-> new[i]]]
RECURSIVE upsert_tasks(_, _)
upsert_tasks(tasks, new) ==
    IF new = <<>> THEN tasks
    ELSE upsert_tasks(DictSet(tasks, Head(new).id, Head(new)), Tail(new))

\* get_tasks_for_date: the tasks due on the date, in dict order
RECURSIVE tasks_due(_, _)
tasks_due(values, d) ==
    IF values = <<>> THEN <<>>
    ELSE (IF Head(values).due_date = <<d>> THEN <<Head(values)>> ELSE <<>>)
         \o tasks_due(Tail(values), d)
get_tasks_for_date(tasks, d) == tasks_due(DictValues(tasks), d)

\* seed_sample_tasks, `if self._tasks: return`: the call goes on only when the
\* store holds no task
seed_needed_always(tasks) == TRUE
seed_needed(tasks) == tasks = <<>>

\* seed_sample_tasks: the three tasks it builds, with fresh ids, two due today
\* and one due tomorrow
sample_tasks(n, day) ==
    <<Task(n + 1, <<"R","e","v","i","e","w"," ","s","y","s","t","e","m"," ","d","e","s","i","g","n"," ","d","o","c">>, day),
      Task(n + 2, <<"W","r","i","t","e"," ","m","o","r","n","i","n","g"," ","r","e","f","l","e","c","t","i","o","n">>, day),
      Task(n + 3, <<"P","l","a","n"," ","n","e","x","t"," ","w","e","e","k","'","s"," ","p","r","i","o","r","i","t","i","e","s">>, day + 1)>>

\* ------------------------------------------------------- request boundary
\* MorningContext._normalise_strings: items stripped, empty ones dropped
RECURSIVE NormaliseStrings(_)
NormaliseStrings(items) ==
    IF items = <<>> THEN <<>>
    ELSE (IF Strip(Head(items)) # <<>> THEN <<Strip(Head(items))>> ELSE <<>>)
         \o NormaliseStrings(Tail(items))

\* MorningContext(**payload.dict())
MorningContext(payload) ==
    [energy_level |-> payload.energy_level,
     top_of_mind |-> NormaliseStrings(payload.top_of_mind),
     intended_focus |-> payload.intended_focus,
     blockers |-> NormaliseStrings(payload.blockers)]

\* CheckInRequest validation (and Form(..., ge=1, le=5) of the HTML route)
CheckInRequestValid(payload) == EnergyLevelValid(payload.energy_level)

\* ui _split_input: the text split on line ends and commas, the items stripped
\* and the empty ones dropped
RECURSIVE split_items(_)
split_items(parts) ==
    IF parts = <<>> THEN <<>>
    ELSE (IF Strip(Head(parts)) # <<>> THEN <<Strip(Head(parts))>> ELSE <<>>)
         \o split_items(Tail(parts))

RECURSIVE split_lines(_)
split_lines(lines) ==
    IF lines = <<>> THEN <<>>
    ELSE split_items(SplitOn(Head(lines), ",")) \o split_lines(Tail(lines))

split_input(value) ==
    IF value = <<>> THEN <<>> ELSE split_lines(SplitOn(Replace(value, "\r", "\n"), "\n"))

\* ui _parse_energy_pattern, one line: <<(time, level)>> when the line parses
\* and the level is within [1,5], else <<>>
parse_energy_line(line) ==
    LET cleaned == Replace(Replace(Strip(line), "=", " "), "-", " ")
        parts == Split(cleaned)
    IN IF Strip(line) = <<>> \/ Len(parts) < 2 THEN <<>>
       ELSE IF ParseTime(parts[1]) = <<>> \/ ParseInt(parts[2]) = <<>> THEN <<>>
       ELSE IF 1 <= ParseInt(parts[2])[1] /\ ParseInt(parts[2])[1] <= 5
            THEN <<<<ParseTime(parts[1])[1], ParseInt(parts[2])[1]>>>>
            ELSE <<>>

RECURSIVE parse_energy_lines(_)
parse_energy_lines(lines) ==
    IF lines = <<>> THEN <<>>
    ELSE parse_energy_line(Head(lines)) \o parse_energy_lines(Tail(lines))

\* ui _parse_energy_pattern
parse_energy_pattern(raw) ==
    IF raw = <<>> THEN <<>> ELSE parse_energy_lines(SplitOn(Replace(raw, "\r", "\n"), "\n"))

\* date.fromisoformat(text): <<d>>, or <<>> where it raises ValueError. The
\* text must take 7, 8 or 10 bytes in UTF-8 and start, in ASCII digits, with
\* YYYY-MM-DD, YYYYMMDD, YYYY-Www, YYYYWww, YYYY-Www-D or YYYYWwwD; nothing
\* looks at what follows a date written without a separator.
fromisoformat(text) ==
    LET n == Utf8Size(text)
        has_sep == Len(text) >= 5 /\ text[5] = "-"
        pos == IF has_sep THEN 6 ELSE 5
        Num(a, b) == DigitsValue(SubSeq(text, a, b))
        AllDigits(a, b) == b <= Len(text) /\ IsAsciiDigits(SubSeq(text, a, b))
        Dash(a) == a <= Len(text) /\ text[a] = "-"
        year == Num(1, 4)
        calendar ==
            LET month == Num(pos, pos + 1)
                dpos == IF has_sep THEN pos + 3 ELSE pos + 2
                day == Num(dpos, dpos + 1)
            IN IF /\ AllDigits(pos, pos + 1) /\ AllDigits(dpos, dpos + 1)
                  /\ (has_sep => Dash(pos + 2))
                  /\ 1 <= year /\ 1 <= month /\ month <= 12
                  /\ 1 <= day /\ day <= days_in_month(year, month)
               THEN <<ymd2ord(year, month, day) - EpochOrdinal>> ELSE <<>>
        week ==
            LET weekno == Num(pos + 1, pos + 2)
                dpos == IF has_sep THEN pos + 4 ELSE pos + 3
                has_day == n > pos + 2
                dayno == IF has_day THEN Num(dpos, dpos) ELSE 1
                ordinal == isoweek1monday(year) + (weekno - 1) * 7 + (dayno - 1)
            IN IF /\ AllDigits(pos + 1, pos + 2)
                  /\ (has_day => AllDigits(dpos, dpos) /\ (has_sep => Dash(pos + 3)))
                  /\ 1 <= year
                  /\ 1 <= weekno /\ weekno <= iso_weeks(year)
                  /\ 1 <= dayno /\ dayno <= 7
                  /\ MinOrdinal <= ordinal /\ ordinal <= MaxOrdinal
               THEN <<ordinal - EpochOrdinal>> ELSE <<>>
    IN IF n \notin {7, 8, 10} \/ ~AllDigits(1, 4) THEN <<>>
       ELSE IF pos <= Len(text) /\ text[pos] = "W" THEN week
       ELSE calendar

\* ui: date.fromisoformat(session_date), today when it raises ValueError
parse_session_date(raw, day) ==
    IF fromisoformat(raw) # <<>> THEN fromisoformat(raw)[1] ELSE day

\* ---------------------------------------------------------------- planner
Bullet == <<" ", "(U+2022)", " ">>

\* morning_checkin: the lines of the plan
plan_lines(payload, recent_memories, tasks) ==
    <<<<"G","o","o","d"," ","m","o","r","n","i","n","g","!"," ","Y","o","u","r"," ","e","n","e","r","g","y"," ","i","s"," ","a","t"," ">> \o Str(payload.energy_level) \o <<"/","5",".">>,
      <<"T","o","d","a","y","'","s"," ","f","o","c","u","s",":"," ">> \o payload.intended_focus \o <<".">>>>
    \o (IF payload.top_of_mind # <<>>
        THEN <<<<"T","o","p"," ","o","f"," ","m","i","n","d",":"," ">> \o Join(<<","," ">>, payload.top_of_mind)>> ELSE <<>>)
    \o (IF payload.blockers # <<>>
        THEN <<<<"W","a","t","c","h"," ","o","u","t"," ","f","o","r"," ","b","l","o","c","k","e","r","s",":"," ">> \o Join(<<","," ">>, payload.blockers)>> ELSE <<>>)
    \o (IF recent_memories # <<>>
        THEN <<<<"R","e","c","e","n","t"," ","h","i","g","h","l","i","g","h","t","s",":"," ">> \o Join(<<" ","|"," ">>, recent_memories)>> ELSE <<>>)
    \o (IF tasks # <<>>
        THEN <<<<"T","o","d","a","y","'","s"," ","t","a","s","k","s",":">>>> \o [i \in 1..Len(tasks) |-> Bullet \o tasks[i].title]
        ELSE <<<<"N","o"," ","s","c","h","e","d","u","l","e","d"," ","t","a","s","k","s"," ","f","o","r"," ","t","o","d","a","y","."," ","C","o","n","s","i","d","e","r"," ","p","l","a","n","n","i","n","g"," ","o","n","e"," ","m","e","a","n","i","n","g","f","u","l"," ","s","t","e","p",".">>>>)

\* morning_checkin: what add_interaction is given
checkin_user_input(payload) == <<"M","o","r","n","i","n","g"," ","c","h","e","c","k","-","i","n"," ","e","n","e","r","g","y","=">> \o Str(payload.energy_level)
checkin_metadata(day) == Meta(<<<<"date", IsoFormat(day)>>, <<"type", <<"m","o","r","n","i","n","g","_","c","h","e","c","k","i","n">>>>>>)

\* evening_reflection: the lines of the message
message_lines(payload) ==
    <<<<"R","e","f","l","e","c","t","i","o","n"," ","s","t","o","r","e","d",".">>, <<"T","o","m","o","r","r","o","w"," ","y","o","u"," ","i","n","t","e","n","d"," ","t","o",":"," ">> \o payload.tomorrow_intent>>
    \o (IF payload.wins # <<>>
        THEN <<<<"C","e","l","e","b","r","a","t","e","d"," ","w","i","n","s",":"," ">> \o Join(<<","," ">>, payload.wins)>> ELSE <<>>)
    \o (IF payload.challenges # <<>>
        THEN <<<<"C","h","a","l","l","e","n","g","e","s"," ","n","o","t","e","d",":"," ">> \o Join(<<","," ">>, payload.challenges)>> ELSE <<>>)

reflection_metadata_no_date(day) == Meta(<<<<"type", <<"e","v","e","n","i","n","g","_","r","e","f","l","e","c","t","i","o","n">>>>>>)
reflection_metadata(day) == Meta(<<<<"date", IsoFormat(day)>>, <<"type", <<"e","v","e","n","i","n","g","_","r","e","f","l","e","c","t","i","o","n">>>>>>)

decision_metadata(day) == Meta(<<<<"type", <<"d","e","c","i","s","i","o","n">>>>, <<"date", IsoFormat(day)>>>>)

\* The statements of each handler, in program order. Statements between which
\* nothing else can act are one step.
CheckinProgram == <<"read_today", "get_tasks", "update_morning_context", "add_interaction">>
ReflectionProgram == <<"update_evening_reflection", "add_event", "add_interaction">>
\* GET /daily: today = date.today(), then _base_daily_context reads the store
DailyProgram == <<"page_today", "render">>
\* GET /decide: store.recent_decisions()
DecideProgram == <<"decision_helper">>
\* the HTML routes go on after the planner's coroutine as GET /daily does
UiCheckinProgram == CheckinProgram \o DailyProgram
UiReflectionProgram == <<"parse_form">> \o ReflectionProgram \o DailyProgram
DecisionProgram == <<"new_decision", "add_decision", "add_interaction">>
ChatProgram == <<"add_interaction">>
WeeklyProgram == <<"weekly_patterns">>

Program(req) ==
    CASE req.kind = "morning_checkin" ->
             IF req.form = <<>> THEN CheckinProgram ELSE UiCheckinProgram
      [] req.kind = "evening_reflection" ->
             IF req.form = <<>> THEN ReflectionProgram ELSE UiReflectionProgram
      [] req.kind = "create_decision" -> DecisionProgram
      [] req.kind = "chat" -> ChatProgram
      [] req.kind = "weekly_patterns" -> WeeklyProgram
      [] req.kind = "daily_planner" -> DailyProgram
      [] req.kind = "decision_helper" -> DecideProgram

\* where request r is: a step of its dependency, a statement of its handler,
\* or "end"
At(r) ==
    IF r > Len(reqs) THEN "none"
    ELSE IF reqs[r].status = "resolving" THEN reqs[r].dep
    ELSE IF reqs[r].status # "running" THEN "end"
    ELSE Program(reqs[r])[reqs[r].pc]

\* The handlers are coroutines on one event loop and the coroutines they await
\* never suspend, so a handler that has started runs to its end before another
\* handler runs. The worker threads and the clock go on meanwhile.
CanRun(r) == running \in {0, r}

\* ------------------------------------------------------------------ Init
\* The state after InMemoryStore() and MemoryService() are constructed.
Init ==
    /\ store_sessions = <<>>
    /\ heap = <<>>
    /\ uuids = 0
    /\ store_events = <<>>
    /\ store_tasks = <<>>
    /\ memory_sessions = <<>>
    /\ today = 1
    /\ now = 0
    /\ reqs = <<>>
    /\ running = 0
    /\ result = [op |-> "init"]
    /\ first_id = [d \in Dates |-> 0]
    /\ appended = [d \in Dates |-> <<>>]
    /\ ops = 0

SetSt(st) ==
    /\ store_sessions' = st.sessions
    /\ heap' = st.heap
    /\ uuids' = st.uuids

\* the history of first identifiers, after a call that get-or-creates date d
NoteFirstId(st, d) ==
    first_id' = IF first_id[d] = 0
                THEN [first_id EXCEPT ![d] = SessionOf(st, d).id]
                ELSE first_id

\* ----------------------------------------------------- inputs to the store
\* contexts MorningContext(...) accepts: energy_level within [1,5]
CoreMorningContexts ==
    {[energy_level |-> e, top_of_mind |-> <<>>, intended_focus |-> <<"w","r","i","t","e"," ","s","p","e","c">>,
      blockers |-> <<>>] : e \in {2, 5}}

\* (time, level) samples a reflection carries
SampleA == <<540, 5>>
SampleB == <<840, 3>>
CorePatterns == {<<>>, <<SampleA>>, <<SampleB, SampleA>>}

CoreReflections ==
    {[actual_focus |-> <<"s","p","e","c">>, wins |-> <<>>, challenges |-> <<>>,
      tomorrow_intent |-> <<"r","e","s","t">>, energy_pattern |-> p] : p \in CorePatterns}

CoreDecisionPayload ==
    [question |-> <<"s","h","i","p">>, context |-> <<"n","o","w">>, options |-> <<<<"a">>, <<"b">>>>]

Limits == 0..2

\* ------------------------------------------------- the store's operations
StoreUnchanged == UNCHANGED <<store_sessions, heap, uuids>>
OtherUnchanged == UNCHANGED <<store_tasks, memory_sessions, today, reqs, running>>

GetOrCreateSession(d) ==
    /\ ops < MaxOps
    /\ LET st == get_or_create_session(St, d)
       IN /\ SetSt(st)
          /\ NoteFirstId(st, d)
          /\ result' = [op |-> "get_or_create_session", date |-> d,
                        id |-> SessionOf(st, d).id]
    /\ ops' = ops + 1
    /\ UNCHANGED <<store_events, now, appended>>
    /\ OtherUnchanged

UpdateMorningContext(d, context) ==
    /\ ops < MaxOps
    /\ LET st == update_morning_context(St, d, context, now)
       IN /\ SetSt(st)
          /\ NoteFirstId(st, d)
          /\ result' = [op |-> "update_morning_context", date |-> d,
                        id |-> SessionOf(st, d).id]
    /\ appended' = [appended EXCEPT ![d] = Append(@, <<now, context.energy_level>>)]
    /\ ops' = ops + 1
    /\ UNCHANGED <<store_events, now>>
    /\ OtherUnchanged

UpdateEveningReflection(d, reflection) ==
    /\ ops < MaxOps
    /\ LET st == update_evening_reflection(St, d, reflection)
       IN /\ SetSt(st)
          /\ NoteFirstId(st, d)
          /\ result' = [op |-> "update_evening_reflection", date |-> d,
                        id |-> SessionOf(st, d).id]
    /\ appended' = [appended EXCEPT ![d] = @ \o reflection.energy_pattern]
    /\ ops' = ops + 1
    /\ UNCHANGED <<store_events, now>>
    /\ OtherUnchanged

\* a caller builds a Decision for the date's session and hands it to add_decision
AddDecision(d, t) ==
    /\ ops < MaxOps
    /\ LET s1 == get_or_create_session(St, d)
           decision == Decision(SessionOf(s1, d).id, CoreDecisionPayload, t)
           st == add_decision(s1, d, decision)
       IN /\ SetSt(st)
          /\ NoteFirstId(st, d)
          /\ result' = [op |-> "add_decision", date |-> d, id |-> SessionOf(st, d).id]
    /\ ops' = ops + 1
    /\ UNCHANGED <<store_events, now, appended>>
    /\ OtherUnchanged

AddEvent(sid) ==
    /\ ops < MaxOps
    /\ store_events' = Append(store_events, PlannerEvent(sid, <<"E","v","e","n","i","n","g"," ","r","e","f","l","e","c","t","i","o","n"," ","c","a","p","t","u","r","e","d">>, now))
    /\ result' = [op |-> "add_event"]
    /\ ops' = ops + 1
    /\ StoreUnchanged
    /\ UNCHANGED <<now, first_id, appended>>
    /\ OtherUnchanged

RecentEvents(limit) ==
    /\ result' = [op |-> "recent_events", limit |-> limit,
                  value |-> recent_events(store_events, limit)]
    /\ StoreUnchanged
    /\ UNCHANGED <<store_events, now, first_id, appended, ops>>
    /\ OtherUnchanged

RecentDecisions(limit) ==
    /\ result' = [op |-> "recent_decisions", limit |-> limit,
                  value |-> recent_decisions(St, limit)]
    /\ StoreUnchanged
    /\ UNCHANGED <<store_events, now, first_id, appended, ops>>
    /\ OtherUnchanged

\* datetime.utcnow() moves on
Tick ==
    /\ ops < MaxOps
    /\ now + 1 \in Times
    /\ now' = now + 1
    /\ result' = [op |-> "tick"]
    /\ ops' = ops + 1
    /\ StoreUnchanged
    /\ UNCHANGED <<store_events, first_id, appended>>
    /\ OtherUnchanged

\* ------------------------------------------- the memory index's operations
\* interactions a caller records: (user_input, ai_response)
Exchanges ==
    {<<<<"F","o","c","u","s">>, <<"E","n","e","r","g","y"," ","h","i","g","h">>>>, <<<<"f","o","c","u","s">>, <<"c","a","l","m">>>>,
     <<<<"n","a","p">>, <<"l","o","w"," ","e","n","e","r","g","y">>>>, <<<<"f","o">>, <<"c","u","s"," ","e","n","e","r","g","y">>>>}

Queries == {<<"f","o","c","u","s"," ","e","n","e","r","g","y">>, <<"E","n","e","r","g","y">>, <<>>, <<" ","F","O","C","U","S","\n">>, <<"u","s">>}

\* metadata mappings a caller supplies
SearchMetas ==
    {Meta(<<<<"type", <<"c","h","a","t">>>>>>),
     Meta(<<<<"session_id", <<"s","1">>>>>>)}
BucketMetas ==
    SearchMetas \cup
    {Meta(<<<<"date", IsoFormat(MaxDay)>>>>),
     Meta(<<<<"session_id", <<"s","1">>>>, <<"date", IsoFormat(1)>>>>),
     Meta(<<<<"date", IsoFormat(1)>>, <<"session_id", IsoFormat(MaxDay)>>>>),
     Meta(<<<<"session_id", <<>>>>, <<"date", IsoFormat(MaxDay)>>>>),
     Meta(<<<<"session_id", <<>>>>, <<"date", <<>>>>>>),
     Meta(<<<<"date", <<>>>>>>)}

MemoryOnly ==
    /\ StoreUnchanged
    /\ UNCHANGED <<store_events, store_tasks, reqs, running, first_id, appended>>

AddInteraction(user_input, ai_response, metadata) ==
    /\ ops < MaxOps
    /\ memory_sessions' =
           add_interaction(memory_sessions, user_input, ai_response, metadata, today, now)
    /\ result' = [op |-> "add_interaction", metadata |-> metadata, day |-> today,
                  before |-> memory_sessions]
    /\ ops' = ops + 1
    /\ UNCHANGED <<today, now>>
    /\ MemoryOnly

\* a read changes nothing, so two reads in a row show nothing a single one does not
SearchMemories(query, limit) ==
    /\ result.op # "search_memories"
    /\ result' = [op |-> "search_memories", query |-> query, limit |-> limit,
                  value |-> search_memories(memory_sessions, query, limit)]
    /\ UNCHANGED <<memory_sessions, today, now, ops>>
    /\ MemoryOnly

GetContextForDate(d) ==
    /\ result' = [op |-> "get_context_for_date", date |-> d,
                  value |-> get_context_for_date(memory_sessions, d),
                  before |-> memory_sessions]
    /\ UNCHANGED <<memory_sessions, today, now, ops>>
    /\ MemoryOnly

\* date.today() moves on
NextDay ==
    /\ ops < MaxOps
    /\ today + 1 \in Dates
    /\ today' = today + 1
    /\ result' = [op |-> "next_day"]
    /\ ops' = ops + 1
    /\ UNCHANGED <<memory_sessions, now>>
    /\ MemoryOnly

\* ------------------------------------------------------------ the requests
\* get_planner_service is a plain function, so the framework runs it in a
\* worker thread while the event loop goes on with other requests. It calls
\* get_store() and get_memory_service(), both lru_cache(maxsize=1), and then
\* PlannerService(...), whose constructor seeds the sample tasks. A call of a
\* cached function that finds the cache empty builds an object; the first
\* such call to return leaves its object in the cache, a later one returns the
\* object it built itself, which no other request ever sees. The variables
\* store_sessions, store_events, store_tasks and memory_sessions are the
\* cached objects; an object a request built for itself is in its record.
\* GET /daily and GET /decide depend on get_store alone: their thread calls
\* get_store() and nothing else, so it can fill the cache of get_store while
\* the cache of get_memory_service is empty and no task has been seeded.
EmptyStore == [sessions |-> <<>>, events |-> <<>>, tasks |-> <<>>]

Request(kind, payload, form, valid) ==
    [kind |-> kind, payload |-> payload, form |-> form, valid |-> valid,
     status |-> "resolving", dep |-> "get_store", pc |-> 1,
     store |-> "none", memory |-> "none", own |-> EmptyStore, own_memory |-> <<>>,
     found |-> <<>>, built |-> <<>>, pending |-> <<>>, seed_day |-> 0,
     day |-> 0, page_day |-> 0, context |-> <<>>, tasks |-> <<>>, ref |-> 0,
     decision |-> <<>>,
     related |-> <<>>, bucket |-> <<>>,
     \* history: another request was still unfinished when this one arrived
     overlap |-> \E i \in 1..Len(reqs) : reqs[i].status \in {"resolving", "running"}]

\* the routes whose only dependency is Depends(get_store)
StoreRoutes == {"daily_planner", "decision_helper"}

\* the cache of get_store / get_memory_service holds an object
StoreCached == \E i \in 1..Len(reqs) : reqs[i].store = "app"
MemoryCached == \E i \in 1..Len(reqs) : reqs[i].memory = "app"

\* every request has ended: none is with a worker thread or on the loop
Settled == \A r \in 1..Len(reqs) : reqs[r].status \notin {"resolving", "running"}

\* the objects a request's PlannerService holds
Sessions(req) == IF req.store = "own" THEN req.own.sessions ELSE store_sessions
Events(req) == IF req.store = "own" THEN req.own.events ELSE store_events
Tasks(req) == IF req.store = "own" THEN req.own.tasks ELSE store_tasks
Memory(req) == IF req.memory = "own" THEN req.own_memory ELSE memory_sessions
StoreOf(req) == [sessions |-> Sessions(req), heap |-> heap, uuids |-> uuids]
\* the store a page is built from: the one Depends(get_store) hands to the
\* route. After Depends(get_planner_service) that call finds the cached store;
\* for GET /daily and GET /decide it is the call that resolved the request.
PageIsApp(req) == req.kind \notin StoreRoutes \/ req.store = "app"
PageSessions(req) == IF PageIsApp(req) THEN store_sessions ELSE req.own.sessions
PageTasks(req) == IF PageIsApp(req) THEN store_tasks ELSE req.own.tasks

\* request r goes on as req, leaving its store as st with the given events and
\* tasks, and its memory index as mem
Put(r, req, st, events, tasks, mem) ==
    LET own_store == reqs[r].store = "own"
        own_memory == reqs[r].memory = "own"
    IN /\ heap' = st.heap
       /\ uuids' = st.uuids
       /\ store_sessions' = IF own_store THEN store_sessions ELSE st.sessions
       /\ store_events' = IF own_store THEN store_events ELSE events
       /\ store_tasks' = IF own_store THEN store_tasks ELSE tasks
       /\ memory_sessions' = IF own_memory THEN memory_sessions ELSE mem
       /\ reqs' = [reqs EXCEPT ![r] =
              [req EXCEPT
                  !.own = IF own_store
                          THEN [sessions |-> st.sessions, events |-> events, tasks |-> tasks]
                          ELSE @,
                  !.own_memory = IF own_memory THEN mem ELSE @]]

\* request r goes on as req and changes no object
Keep(r, req) ==
    /\ reqs' = [reqs EXCEPT ![r] = req]
    /\ UNCHANGED <<store_sessions, heap, uuids, store_events, store_tasks, memory_sessions>>

CheckInPayload(level) ==
    [energy_level |-> level, top_of_mind |-> <<>>, intended_focus |-> <<"w","r","i","t","e"," ","s","p","e","c">>,
     blockers |-> <<>>]

ReflectionPayload(d, pattern) ==
    [session_date |-> d, actual_focus |-> <<"s","p","e","c">>, wins |-> <<>>, challenges |-> <<>>,
     tomorrow_intent |-> <<"r","e","s","t">>, energy_pattern |-> pattern]

\* ChatMessage(content=..., include_context=..., challenge_mode=False)
ChatPayload(content, include_context) ==
    [content |-> content, include_context |-> include_context, challenge_mode |-> FALSE]

\* energy levels a check-in request may carry, valid or not
CheckinLevels == {2, 6}
\* energy patterns a JSON reflection request may carry: any integers
ApiPatterns == {<<<<840, 9>>, SampleA>>}
\* session dates a JSON reflection request may carry
ApiDates == {d \in Dates : \A e \in Dates : d <= e}
\* the HTML reflection form: (session_date text, energy_pattern text)
UiForms ==
    {<<<<"2","0","2","4","-","W","0","1","-","2">>, <<"0","9",":","0","0"," ","5","\n","1","4",":","0","0","=","9","\n","7",":","3","0","-","3">>>>,
     <<<<"t","o","m","o","r","r","o","w">>, <<"1","4",":","0","0"," ","0","\r","2","5",":","0","0"," ","2","\n","n","o","o","n"," ","4">>>>}
\* the HTML check-in form: (energy_level, top_of_mind text, blockers text)
UiCheckins == {<<2, <<"s","h","i","p",","," ","r","e","s","t","\r"," ",",">>, <<>>>>, <<6, <<>>, <<"n","o","i","s","e">>>>}
\* chat messages: (content, include_context)
ChatMessages == {<<<<"s","p","e","c">>, TRUE>>}

Requests == 1..MaxReqs

ClockUnchanged == UNCHANGED <<today, now, ops>>
HistoryUnchanged == UNCHANGED <<first_id, appended>>

\* the dependency is resolved; the body is validated next, and a request that
\* fails validation never reaches its handler
Constructed(req) ==
    [req EXCEPT !.dep = "done", !.status = IF req.valid THEN "running" ELSE "rejected"]

\* get_store() has returned: a route that depends on it alone is resolved,
\* get_planner_service goes on to get_memory_service()
StoreResolved(req) ==
    IF req.kind \in StoreRoutes THEN Constructed(req)
    ELSE [req EXCEPT !.dep = "get_memory_service"]

\* get_store(): the cached object, or on an empty cache InMemoryStore() begins
get_store(req) ==
    IF req.dep # "get_store" THEN req
    ELSE IF StoreCached THEN StoreResolved([req EXCEPT !.store = "app"])
    ELSE [req EXCEPT !.store = "building", !.dep = "store_return"]

\* get_memory_service(): the cached object, or on an empty cache
\* MemoryService() begins
get_memory_service(req) ==
    IF req.dep # "get_memory_service" THEN req
    ELSE IF MemoryCached THEN [req EXCEPT !.memory = "app", !.dep = "seed_check"]
    ELSE [req EXCEPT !.memory = "building", !.dep = "memory_return"]

\* PlannerService.__init__ calls seed_sample_tasks, whose first statement is
\* `if self._tasks: return`. The call that goes on reads the date next, at a
\* later moment.
seed_sample_tasks(req) ==
    IF req.dep # "seed_check" THEN req
    ELSE IF ~seed_needed(Tasks(req)) THEN Constructed([req EXCEPT !.found = Tasks(req)])
    ELSE [req EXCEPT !.dep = "seed_today"]

\* get_planner_service, from where the thread of req is up to the next point
\* where another thread's step can make a difference. A look into a cache that
\* finds an object finds it at any later moment too, so it is one step with
\* what follows it; a call that builds, a call that returns what it built, the
\* test of self._tasks and the reading of the date are steps of their own.
get_planner_service(req) == seed_sample_tasks(get_memory_service(get_store(req)))

\* the dependency of the route of req, run by a worker thread
Depends(req) ==
    IF req.kind \in StoreRoutes THEN get_store(req) ELSE get_planner_service(req)

\* a step of get_planner_service for request r, which goes on as req; the
\* result tells whether the test of self._tasks ran in it, and the tasks it saw
Resolved(name, r, req) ==
    /\ reqs' = IF r > Len(reqs) THEN Append(reqs, req) ELSE [reqs EXCEPT ![r] = req]
    /\ result' = [op |-> name, req |-> r,
                  checked |-> /\ req.kind \notin StoreRoutes
                              /\ req.dep \in {"seed_today", "done"}
                              /\ (r > Len(reqs) \/ reqs[r].dep # "seed_today"),
                  before |-> IF req.store = "own" THEN <<>> ELSE store_tasks]
    /\ ClockUnchanged /\ HistoryUnchanged
    /\ UNCHANGED <<store_sessions, heap, uuids, store_events, store_tasks, memory_sessions,
                   running>>

\* A request arrives and a worker thread calls the dependency of its route:
\* get_planner_service, or get_store for GET /daily and GET /decide.
Arrive(kind, payload, form, valid) ==
    /\ Len(reqs) < MaxReqs
    /\ Resolved("arrive", Len(reqs) + 1, Depends(Request(kind, payload, form, valid)))

\* POST /api/daily/checkin: energy_level must be in [1,5]
ArriveCheckin(payload) ==
    Arrive("morning_checkin", payload, <<>>, CheckInRequestValid(payload))

\* POST /daily/morning: energy_level is Form(..., ge=1, le=5), and the handler
\* splits the texts of top_of_mind and blockers into lists
ArriveCheckinUi(level, top_of_mind, blockers) ==
    Arrive("morning_checkin",
           [CheckInPayload(level) EXCEPT !.top_of_mind = split_input(top_of_mind),
                                         !.blockers = split_input(blockers)],
           <<top_of_mind, blockers>>, CheckInRequestValid(CheckInPayload(level)))

\* POST /api/daily/reflection: EveningReflectionRequest puts no range on the levels
ArriveReflectionApi(d, pattern) ==
    Arrive("evening_reflection", ReflectionPayload(d, pattern), <<>>, TRUE)

\* POST /daily/evening: the form's texts, which the handler parses
ArriveReflectionUi(rawdate, rawpattern) ==
    Arrive("evening_reflection", ReflectionPayload(0, <<>>), <<rawdate, rawpattern>>, TRUE)

\* POST /api/decisions
ArriveDecision ==
    Arrive("create_decision", CoreDecisionPayload, <<>>, TRUE)

\* POST /api/chat
ArriveChat(content, include_context) ==
    Arrive("chat", ChatPayload(content, include_context), <<>>, TRUE)

\* GET /daily
ArriveDaily ==
    Arrive("daily_planner", <<>>, <<>>, TRUE)

\* GET /decide
ArriveDecide ==
    Arrive("decision_helper", <<>>, <<>>, TRUE)

\* GET /api/patterns/weekly
ArriveWeekly ==
    Arrive("weekly_patterns", <<>>, <<>>, TRUE)

\* the call that built a store returns: its object is cached when the cache is
\* still empty, and else is this request's alone
ReturnStore(r) ==
    /\ At(r) = "store_return"
    /\ Resolved("store_return", r,
                StoreResolved([reqs[r] EXCEPT !.store = IF StoreCached THEN "own" ELSE "app"]))

\* get_memory_service() is called, after a get_store() that built
GetMemoryService(r) ==
    /\ At(r) = "get_memory_service"
    /\ Resolved("get_memory_service", r, get_planner_service(reqs[r]))

\* the call that built a memory index returns, likewise
ReturnMemoryService(r) ==
    /\ At(r) = "memory_return"
    /\ Resolved("memory_return", r,
                [reqs[r] EXCEPT !.memory = IF MemoryCached THEN "own" ELSE "app",
                                !.dep = "seed_check"])

\* PlannerService.__init__ tests self._tasks, after a get_memory_service() that
\* built
SeedCheck(r) ==
    /\ At(r) = "seed_check"
    /\ Resolved("seed_check", r, get_planner_service(reqs[r]))

\* seed_sample_tasks goes on: today = date.today() and the three Task(...)
\* objects with fresh ids. A store that is this request's alone receives them
\* there and then, as nobody else can look at it.
SeedToday(r) ==
    /\ At(r) = "seed_today"
    /\ LET tasks == sample_tasks(uuids, today)
           req == [reqs[r] EXCEPT !.built = tasks, !.seed_day = today]
       IN reqs' = [reqs EXCEPT ![r] =
              IF req.store = "own"
              THEN Constructed([req EXCEPT !.own.tasks = upsert_tasks(@, tasks)])
              ELSE [req EXCEPT !.pending = tasks, !.dep = "seed_insert"]]
    /\ uuids' = uuids + 3
    /\ result' = [op |-> "seed_today", req |-> r, day |-> today]
    /\ ClockUnchanged /\ HistoryUnchanged
    /\ UNCHANGED <<store_sessions, heap, store_events, store_tasks, memory_sessions, running>>

\* upsert_tasks on the application's store, one round of its loop:
\* self._tasks[task.id] = task
SeedInsert(r) ==
    /\ At(r) = "seed_insert"
    /\ result' = [op |-> "seed_insert", req |-> r, before |-> store_tasks]
    /\ LET rest == [reqs[r] EXCEPT !.pending = Tail(@)]
       IN reqs' = [reqs EXCEPT ![r] = IF rest.pending = <<>> THEN Constructed(rest) ELSE rest]
    /\ store_tasks' = upsert_tasks(store_tasks, <<Head(reqs[r].pending)>>)
    /\ ClockUnchanged /\ HistoryUnchanged
    /\ UNCHANGED <<store_sessions, heap, uuids, store_events, memory_sessions, running>>

\* the thread of request t inserts a sample task into the application's dict
\* while the handler of request r iterates over its values: the iteration
\* raises RuntimeError (dictionary changed size during iteration) and the
\* handler ends
Interrupted(r, t, name) ==
    /\ At(r) = name
    /\ CanRun(r)
    /\ At(t) = "seed_insert"
    /\ LET rest == [reqs[t] EXCEPT !.pending = Tail(@)]
       IN reqs' = [reqs EXCEPT
              ![r] = [@ EXCEPT !.status = "failed"],
              ![t] = IF rest.pending = <<>> THEN Constructed(rest) ELSE rest]
    /\ store_tasks' = upsert_tasks(store_tasks, <<Head(reqs[t].pending)>>)
    /\ running' = 0
    /\ result' = [op |-> name \o "_interrupted", req |-> r, by |-> t,
                  before |-> store_tasks]
    /\ ClockUnchanged /\ HistoryUnchanged
    /\ UNCHANGED <<store_sessions, heap, uuids, store_events, memory_sessions>>

\* request r moves past its current statement; the last statement ends it
Advance(req) ==
    IF req.pc = Len(Program(req)) THEN [req EXCEPT !.status = "done"]
    ELSE [req EXCEPT !.pc = @ + 1]

\* a statement of r's handler runs on the event loop
OnLoop(r, name) ==
    /\ At(r) = name
    /\ CanRun(r)
    /\ running' = IF reqs[r].pc = Len(Program(reqs[r])) THEN 0 ELSE r
    /\ ClockUnchanged /\ HistoryUnchanged

\* morning_checkin: today = date.today(); context = await
\* self.memory.get_context_for_date(today)
ReadToday(r) ==
    /\ OnLoop(r, "read_today")
    /\ result' = [op |-> "read_today", req |-> r, day |-> today]
    /\ Keep(r, Advance([reqs[r] EXCEPT
                   !.day = today,
                   !.context = get_context_for_date(Memory(reqs[r]), today)]))

\* morning_checkin: tasks = self.store.get_tasks_for_date(today), at a later
\* moment than the reading of the date
GetTasks(r) ==
    /\ OnLoop(r, "get_tasks")
    /\ result' = [op |-> "get_tasks", req |-> r, day |-> reqs[r].day,
                  stored |-> Tasks(reqs[r])]
    /\ Keep(r, Advance([reqs[r] EXCEPT
                   !.tasks = get_tasks_for_date(Tasks(reqs[r]), reqs[r].day)]))

\* get_tasks_for_date of the check-in iterates the dict a thread inserts into
GetTasksInterrupted(r, t) ==
    /\ At(r) = "get_tasks"
    /\ reqs[r].store = "app"
    /\ Interrupted(r, t, "get_tasks")

\* self.store.update_morning_context(today, MorningContext(**payload.dict()))
UpdateMorning(r) ==
    /\ OnLoop(r, "update_morning_context")
    /\ result' = [op |-> "update_morning_context", req |-> r, at |-> now,
                  before |-> Sessions(reqs[r])]
    /\ LET req == reqs[r]
       IN Put(r, Advance(req),
              update_morning_context(StoreOf(req), req.day, MorningContext(req.payload), now),
              Events(req), Tasks(req), Memory(req))

\* submit_evening_reflection: the session date, today when the text is no ISO
\* date, and the energy pattern are parsed from the form
ParseForm(r) ==
    /\ OnLoop(r, "parse_form")
    /\ result' = [op |-> "parse_form", req |-> r]
    /\ Keep(r, Advance([reqs[r] EXCEPT
                   !.payload = ReflectionPayload(parse_session_date(reqs[r].form[1], today),
                                                 parse_energy_pattern(reqs[r].form[2]))]))

\* session = self.store.update_evening_reflection(payload.session_date, reflection)
UpdateEvening(r) ==
    /\ OnLoop(r, "update_evening_reflection")
    /\ LET req == reqs[r]
           d == req.payload.session_date
           st == update_evening_reflection(StoreOf(req), d, EveningReflection(req.payload))
       IN /\ result' = [op |-> "update_evening_reflection", req |-> r,
                        before |-> Sessions(req), heap |-> heap,
                        events |-> Events(req), memory |-> Memory(req)]
          /\ Put(r, Advance([req EXCEPT !.day = d, !.ref = session_ref(st, d)]),
                 st, Events(req), Tasks(req), Memory(req))

\* self.store.add_event(PlannerEvent(session_id=session.id, ...))
AddReflectionEvent(r) ==
    /\ OnLoop(r, "add_event")
    /\ LET req == reqs[r]
       IN /\ result' = [op |-> "add_event", req |-> r, before |-> Sessions(req),
                        heap |-> heap, events |-> Events(req), memory |-> Memory(req)]
          /\ Put(r, Advance(req), StoreOf(req),
                 Append(Events(req),
                        PlannerEvent(heap[req.ref].id, <<"E","v","e","n","i","n","g"," ","r","e","f","l","e","c","t","i","o","n"," ","c","a","p","t","u","r","e","d">>, now)),
                 Tasks(req), Memory(req))

\* create_decision: today = date.today(); session = get_or_create_session(today);
\* decision = Decision(session_id=session.id, ...)
NewDecision(r) ==
    /\ OnLoop(r, "new_decision")
    /\ result' = [op |-> "new_decision", req |-> r]
    /\ LET req == reqs[r]
           st == get_or_create_session(StoreOf(req), today)
       IN Put(r, Advance([req EXCEPT
                     !.day = today,
                     !.decision = <<Decision(SessionOf(st, today).id, req.payload, now)>>]),
              st, Events(req), Tasks(req), Memory(req))

\* self.store.add_decision(today, decision)
StoreDecision(r) ==
    /\ OnLoop(r, "add_decision")
    /\ result' = [op |-> "add_decision", req |-> r]
    /\ LET req == reqs[r]
       IN Put(r, Advance(req), add_decision(StoreOf(req), req.day, req.decision[1]),
              Events(req), Tasks(req), Memory(req))

\* what a decision capture and a chat look up before they record:
\* await self.memory.search_memories(...)
Related(req) ==
    IF req.kind = "create_decision"
    THEN search_memories(Memory(req), req.payload.question, DefaultSearchLimit)
    ELSE IF req.kind = "chat" /\ req.payload.include_context
    THEN search_memories(Memory(req), req.payload.content, DefaultSearchLimit)
    ELSE <<>>

\* chat: the reply
chat_reply(payload, related_memories) ==
    (IF payload.challenge_mode THEN <<"[","C","h","a","l","l","e","n","g","e","]"," ">> ELSE <<>>)
    \o <<"Y","o","u"," ","s","a","i","d",":"," ">> \o payload.content \o <<"."," ","H","e","r","e","'","s"," ","w","h","a","t"," ","I"," ","a","m"," ","c","o","n","s","i","d","e","r","i","n","g",":"," ">>
    \o (IF related_memories # <<>>
        THEN <<"E","a","r","l","i","e","r"," ","w","e"," ","d","i","s","c","u","s","s","e","d",":"," ">> \o Join(<<" ","|"," ">>, related_memories)
        ELSE <<"N","o"," ","d","i","r","e","c","t","l","y"," ","r","e","l","a","t","e","d"," ","m","e","m","o","r","i","e","s"," ","y","e","t">> \o <<"(U+2014)">>
             \o <<"l","e","t","'","s"," ","b","u","i","l","d"," ","s","o","m","e"," ","c","o","n","t","e","x","t",".">>)

chat_metadata == Meta(<<<<"type", <<"c","h","a","t">>>>>>)

\* what each workflow records: (user_input, ai_response, metadata)
Interaction(req) ==
    CASE req.kind = "morning_checkin" ->
             <<checkin_user_input(req.payload),
               Join(<<"\n">>, plan_lines(req.payload, req.context, req.tasks)),
               checkin_metadata(req.day)>>
      [] req.kind = "evening_reflection" ->
             <<<<"E","v","e","n","i","n","g"," ","r","e","f","l","e","c","t","i","o","n"," ","s","u","b","m","i","t","t","e","d">>,
               Join(<<" ">>, message_lines(req.payload)),
               reflection_metadata(req.payload.session_date)>>
      [] req.kind = "create_decision" ->
             <<<<"D","e","c","i","s","i","o","n",":"," ">> \o req.payload.question,
               <<"R","e","c","o","r","d","e","d"," ","d","e","c","i","s","i","o","n"," ","w","i","t","h"," ">> \o Str(Len(req.payload.options)) \o <<" ","o","p","t","i","o","n","s",".">>,
               decision_metadata(req.day)>>
      [] req.kind = "chat" ->
             <<req.payload.content, chat_reply(req.payload, Related(req)), chat_metadata>>

\* await self.memory.add_interaction(...), the last statement before the return
\* (a decision capture and a chat search the index just before)
AddWorkflowInteraction(r) ==
    /\ OnLoop(r, "add_interaction")
    /\ LET req == reqs[r]
           x == Interaction(req)
       IN /\ result' = [op |-> "add_interaction", req |-> r, metadata |-> x[3],
                        day |-> today, at |-> now, text |-> x[2],
                        lines |-> IF req.kind = "morning_checkin"
                                  THEN plan_lines(req.payload, req.context, req.tasks)
                                  ELSE <<>>,
                        before |-> Memory(req),
                        sessions |-> Sessions(req), heap |-> heap, events |-> Events(req)]
          /\ Put(r, Advance([req EXCEPT !.related = Related(req),
                                        !.bucket = bucket_key(x[3], today)]),
                 StoreOf(req),
                 Events(req), Tasks(req),
                 add_interaction(Memory(req), x[1], x[2], x[3], today, now))

\* daily_planner, and submit_morning_checkin and submit_evening_reflection
\* after the planner's coroutine: today = date.today()
PageToday(r) ==
    /\ OnLoop(r, "page_today")
    /\ result' = [op |-> "page_today", req |-> r, day |-> today]
    /\ Keep(r, Advance([reqs[r] EXCEPT !.page_day = today]))

\* _base_daily_context, at a later moment than the reading of the date:
\* store.get_session(today) and store.get_tasks_for_date(today), on the store
\* get_store() returned
RenderDaily(r) ==
    /\ OnLoop(r, "render")
    /\ LET req == reqs[r]
           d == req.page_day
       IN result' = [op |-> "render", req |-> r, day |-> d,
                     stored |-> PageTasks(req),
                     session |-> IF Has(PageSessions(req), d)
                                 THEN <<heap[DictGet(PageSessions(req), d)]>> ELSE <<>>,
                     tasks_today |-> get_tasks_for_date(PageTasks(req), d)]
    /\ Keep(r, Advance(reqs[r]))

\* get_tasks_for_date of _base_daily_context iterates the dict a thread
\* inserts into: the request fails, after its writes if it made any
RenderDailyInterrupted(r, t) ==
    /\ At(r) = "render"
    /\ PageIsApp(reqs[r])
    /\ Interrupted(r, t, "render")

\* decision_helper: store.recent_decisions(), on the store get_store() returned
RenderDecide(r) ==
    /\ OnLoop(r, "decision_helper")
    /\ LET req == reqs[r]
       IN result' = [op |-> "decision_helper", req |-> r,
                     value |-> recent_decisions([sessions |-> PageSessions(req),
                                                 heap |-> heap, uuids |-> uuids],
                                                DefaultDecisionLimit)]
    /\ Keep(r, Advance(reqs[r]))

\* the handlers' statements that build a page
Page(r) ==
    \/ PageToday(r)
    \/ RenderDaily(r)
    \/ RenderDecide(r)

\* the worker threads
Resolve(r) ==
    \/ ReturnStore(r)
    \/ GetMemoryService(r)
    \/ ReturnMemoryService(r)
    \/ SeedCheck(r)
    \/ SeedToday(r)
    \/ SeedInsert(r)

\* datetime.utcnow() and date.today() move on, between any two steps
Clock ==
    \/ Tick
    \/ NextDay

\* The store's session operations, on any dates, in any order.
Next ==
    \/ \E d \in Dates : GetOrCreateSession(d)
    \/ \E d \in Dates, c \in CoreMorningContexts : UpdateMorningContext(d, c)
    \/ \E d \in Dates, r \in CoreReflections : UpdateEveningReflection(d, r)
    \/ \E d \in Dates, t \in Times : AddDecision(d, t)
    \/ Tick

Spec == Init /\ [][Next]_vars

\* The store's logs and their queries: decisions on any dates with any
\* timestamps, events, and the two recent_* reads.
NextQuery ==
    \/ \E d \in Dates : GetOrCreateSession(d)
    \/ \E d \in Dates, t \in Times : AddDecision(d, t)
    \/ \E sid \in {1, 2} : AddEvent(sid)
    \/ \E n \in Limits : RecentEvents(n)
    \/ \E n \in Limits : RecentDecisions(n)

SpecQuery == Init /\ [][NextQuery]_vars

\* The memory index under search: interactions in several buckets, then
\* search_memories with any query and limit.
NextSearch ==
    \/ \E x \in Exchanges, m \in SearchMetas : AddInteraction(x[1], x[2], m)
    \/ \E q \in Queries, k \in Limits : SearchMemories(q, k)

SpecSearch == Init /\ [][NextSearch]_vars

\* The memory index under the bucket-key chain: interactions with any
\* metadata, on changing days.
NextBucket ==
    \/ \E m \in BucketMetas : AddInteraction(<<"h","i">>, <<"h","e","l","l","o">>, m)
    \/ \E d \in Dates : GetContextForDate(d)
    \/ NextDay

SpecBucket == Init /\ [][NextBucket]_vars

\* clock steps while requests are in flight
MaxClock == 1
RequestClock == ops < MaxClock /\ Clock

\* The day's workflows as concurrent requests: check-ins, decision captures,
\* chats and requests for the pages (GET /daily, GET /decide) arrive, a worker
\* thread resolves each one's dependency, the event loop runs the handlers one
\* at a time, and the clock and the date move on.
NextPlanner ==
    \/ \E level \in CheckinLevels : ArriveCheckin(CheckInPayload(level))
    \/ ArriveDecision
    \/ \E m \in ChatMessages : ArriveChat(m[1], m[2])
    \/ ArriveDaily
    \/ ArriveDecide
    \/ \E r \in Requests : Resolve(r)
    \/ \E r \in Requests : ReadToday(r)
    \/ \E r \in Requests : GetTasks(r)
    \/ \E r, t \in Requests : GetTasksInterrupted(r, t)
    \/ \E r \in Requests : UpdateMorning(r)
    \/ \E r \in Requests : NewDecision(r)
    \/ \E r \in Requests : StoreDecision(r)
    \/ \E r \in Requests : AddWorkflowInteraction(r)
    \/ \E r \in Requests : Page(r)
    \/ \E r, t \in Requests : RenderDailyInterrupted(r, t)
    \/ RequestClock

SpecPlanner == Init /\ [][NextPlanner]_vars

\* The evening's workflow as concurrent requests: reflections arrive as JSON
\* and from the HTML form, whose route goes on to build the page, beside
\* requests for the pages.
NextEvening ==
    \/ \E d \in ApiDates, p \in ApiPatterns : ArriveReflectionApi(d, p)
    \/ \E form \in UiForms : ArriveReflectionUi(form[1], form[2])
    \/ ArriveDaily
    \/ ArriveDecide
    \/ \E r \in Requests : Resolve(r)
    \/ \E r \in Requests : ParseForm(r)
    \/ \E r \in Requests : UpdateEvening(r)
    \/ \E r \in Requests : AddReflectionEvent(r)
    \/ \E r \in Requests : AddWorkflowInteraction(r)
    \/ \E r \in Requests : Page(r)
    \/ \E r, t \in Requests : RenderDailyInterrupted(r, t)
    \/ RequestClock

SpecEvening == Init /\ [][NextEvening]_vars

\* Energy samples arriving in concurrent requests: check-ins from the HTML
\* form, whose route goes on to build the page, and reflections as JSON,
\* beside requests for the pages.
NextSamples ==
    \/ \E form \in UiCheckins : ArriveCheckinUi(form[1], form[2], form[3])
    \/ \E d \in ApiDates, p \in ApiPatterns : ArriveReflectionApi(d, p)
    \/ ArriveDaily
    \/ ArriveDecide
    \/ \E r \in Requests : Resolve(r)
    \/ \E r \in Requests : ReadToday(r)
    \/ \E r \in Requests : GetTasks(r)
    \/ \E r, t \in Requests : GetTasksInterrupted(r, t)
    \/ \E r \in Requests : UpdateMorning(r)
    \/ \E r \in Requests : UpdateEvening(r)
    \/ \E r \in Requests : AddReflectionEvent(r)
    \/ \E r \in Requests : AddWorkflowInteraction(r)
    \/ \E r \in Requests : Page(r)
    \/ \E r, t \in Requests : RenderDailyInterrupted(r, t)
    \/ RequestClock

SpecSamples == Init /\ [][NextSamples]_vars

\* ------------------------------------------------- tasks and the morning plan
\* get_all_tasks: list(self._tasks.values())
get_all_tasks(tasks) == DictValues(tasks)

\* check-in requests: with or without top-of-mind items, with or without
\* blockers
PlanPayloads ==
    {[energy_level |-> 2, top_of_mind |-> t, intended_focus |-> <<"w","r","i","t","e"," ","s","p","e","c">>,
      blockers |-> b] : t \in {<<>>, <<<<"s","h","i","p">>, <<"r","e","s","t">>>>},
                        b \in {<<>>, <<<<"n","o","i","s","e">>>>}}

\* a task handed to upsert_tasks: slot 0 is a task built without an id (a
\* fresh one is drawn), slot k carries the identifier of the k-th stored task;
\* the due date is none, today or tomorrow
TaskTitles == {<<"C","a","l","l"," ","b","a","n","k">>, <<"P","a","y"," ","r","e","n","t">>}
TaskSlots == 0..2
TaskDues == {"none", "today", "tomorrow"}
TaskInput(slot, title, due) ==
    [Task(IF slot = 0 THEN uuids + 1 ELSE store_tasks[slot].key, title, today)
        EXCEPT !.due_date = CASE due = "none" -> <<>>
                              [] due = "today" -> <<today>>
                              [] due = "tomorrow" -> <<today + 1>>]

\* InMemoryStore.upsert_tasks([task]); a task built without an id draws a fresh one
UpsertTasks(slot, title, due) ==
    /\ ops < MaxOps
    /\ slot <= Len(store_tasks)
    /\ LET task == TaskInput(slot, title, due)
       IN /\ store_tasks' = upsert_tasks(store_tasks, <<task>>)
          /\ uuids' = Max(uuids, task.id)
          /\ result' = [op |-> "upsert_tasks", task |-> task, before |-> store_tasks]
    /\ ops' = ops + 1
    /\ UNCHANGED <<store_sessions, heap, memory_sessions, today, store_events, reqs,
                   running, first_id, appended, now>>

\* The store's task operations, in any order, on changing days.
NextTasks ==
    \/ \E slot \in TaskSlots, title \in TaskTitles, due \in TaskDues :
           UpsertTasks(slot, title, due)
    \/ NextDay

SpecTasks == Init /\ [][NextTasks]_vars

\* date.today() moves on by a day, or past every sample task's due date
DaysPass(k) ==
    /\ ops < MaxClock
    /\ today' = today + k
    /\ ops' = ops + 1
    /\ result' = [op |-> "days_pass"]
    /\ UNCHANGED <<store_sessions, heap, uuids, store_events, store_tasks, memory_sessions,
                   now, reqs, running, first_id, appended>>

\* what goes on beside the check-ins of a day: the pages are asked for, the
\* worker threads resolve the dependencies and seed the sample tasks, the
\* handlers run on the loop, and the date moves on
DayGoesOn(jumps) ==
    \/ ArriveDaily
    \/ ArriveDecide
    \/ \E r \in Requests : Resolve(r)
    \/ \E r \in Requests : ReadToday(r)
    \/ \E r \in Requests : GetTasks(r)
    \/ \E r, t \in Requests : GetTasksInterrupted(r, t)
    \/ \E r \in Requests : UpdateMorning(r)
    \/ \E r \in Requests : AddWorkflowInteraction(r)
    \/ \E r \in Requests : Page(r)
    \/ \E r, t \in Requests : RenderDailyInterrupted(r, t)
    \/ \E k \in jumps : DaysPass(k)

\* Seeding: check-ins (POST /api/daily/checkin, valid or not) and page
\* requests arrive on a fresh process while the date moves on.
NextDayTasks ==
    \/ \E level \in CheckinLevels : ArriveCheckin(CheckInPayload(level))
    \/ DayGoesOn({1, 2})

SpecDay == Init /\ [][NextDayTasks]_vars

\* The morning plan: check-ins with every combination of lists arrive.
NextPlan ==
    \/ \E payload \in PlanPayloads : ArriveCheckin(payload)
    \/ DayGoesOn({2})

SpecPlan == Init /\ [][NextPlan]_vars

\* ------------------------------------------------------------ weekly patterns
\* timedelta(days=6): the window reaches this many days back from today
WindowDays == 6

\* day.strftime("%a"): day 1 of the model, 2024-01-01, is a Monday
WeekdayNames == <<<<"M","o","n">>, <<"T","u","e">>, <<"W","e","d">>, <<"T","h","u">>, <<"F","r","i">>, <<"S","a","t">>, <<"S","u","n">>>>
Weekday(d) == WeekdayNames[((d - 1) % 7) + 1]

\* get_sessions_between: the sessions with start <= date <= end, in dict order
get_sessions_between(st, start, end) ==
    LET all == [i \in 1..Len(st.sessions) |-> st.heap[st.sessions[i].val]]
        InWindow(session) == start <= session.date /\ session.date <= end
    IN SelectSeq(all, InWindow)

\* the levels of a timeline
Levels(pattern) == [k \in 1..Len(pattern) |-> pattern[k][2]]

RECURSIVE SumSeq(_)
SumSeq(xs) == IF xs = <<>> THEN 0 ELSE Head(xs) + SumSeq(Tail(xs))

RECURSIVE MaxSeq(_)
MaxSeq(xs) == IF Len(xs) = 1 THEN xs[1] ELSE Max(Head(xs), MaxSeq(Tail(xs)))

\* _average_energy: None (<<>>) without points, else sum(points) / len(points),
\* kept as the pair <<sum, len>>
average_energy(sessions) ==
    LET points == Flatten([i \in 1..Len(sessions) |-> Levels(sessions[i].energy_pattern)])
    IN IF points = <<>> THEN <<>> ELSE <<<<SumSeq(points), Len(points)>>>>

\* 2^k modulo 25
RECURSIVE Pow2Mod25(_)
Pow2Mod25(k) == IF k = 0 THEN 1 ELSE (2 * Pow2Mod25(k - 1)) % 25

\* the binary exponent of the quotient a / den (a, den > 0): the e with
\* 2^e <= a / den < 2^(e + 1)
RECURSIVE ExponentUp(_, _)
ExponentUp(a, den) == IF a \div 2 >= den THEN 1 + ExponentUp(a \div 2, den) ELSE 0
RECURSIVE ExponentDown(_, _)
ExponentDown(a, den) == IF a >= den THEN 0 ELSE 1 + ExponentDown(2 * a, den)
BinaryExponent(a, den) == IF a >= den THEN ExponentUp(a, den) ELSE 0 - ExponentDown(a, den)

\* sum / len is a binary double (53 significant bits, nearest, ties to even). It
\* differs from the quotient by too little to matter to two decimals, unless the
\* quotient is an odd number k of two-hundredths. Then the double is the
\* quotient itself when 25 divides k, and else lies above it exactly when
\* k * 2^(49 - e) leaves a remainder of 13 or more modulo 25.
DoubleAboveTie(k, e) == ((k % 25) * Pow2Mod25(49 - e)) % 25 >= 13

\* f"{value:.2f}" of value = num / den (den > 0): the double rounded to the
\* nearest hundredth, a tie to the even one
FormatFixed2(num, den) ==
    LET a == IF num < 0 THEN 0 - num ELSE num
        q == (100 * a) \div den
        r == (100 * a) % den
        k == 2 * q + 1
        up == IF 2 * r # den THEN 2 * r > den
              ELSE IF k % 25 = 0 THEN q % 2 = 1
              ELSE DoubleAboveTie(k, BinaryExponent(a, den))
        h == IF up THEN q + 1 ELSE q
        frac == h % 100
    IN (IF num < 0 THEN <<"-">> ELSE <<>>) \o Str(h \div 100) \o <<".">>
       \o <<Digits[(frac \div 10) + 1], Digits[(frac % 10) + 1]>>

high_energy_days(sessions) ==
    LET High(session) ==
            session.energy_pattern # <<>> /\ MaxSeq(Levels(session.energy_pattern)) >= 4
        high == SelectSeq(sessions, High)
    IN [i \in 1..Len(high) |-> high[i].date]

\* `if average_energy:`: None and 0.0 are falsy
average_truthy(average) == average # <<>> /\ average[1][1] # 0

\* PlannerService.weekly_patterns
weekly_patterns(st, day) ==
    LET sessions == get_sessions_between(st, day - WindowDays, day)
        high == high_energy_days(sessions)
        HasReflection(session) == session.evening_reflection # <<>>
        reflection_count == Len(SelectSeq(sessions, HasReflection))
        average == average_energy(sessions)
    IN [summary |-> IF sessions # <<>> THEN <<"W","e","e","k","l","y"," ","r","e","v","i","e","w"," ","p","r","e","p","a","r","e","d",".">>
                    ELSE <<"N","o"," ","s","e","s","s","i","o","n","s"," ","r","e","c","o","r","d","e","d"," ","t","h","i","s"," ","w","e","e","k",".">>,
        highlights |->
            (IF high # <<>>
             THEN <<<<"H","i","g","h"," ","e","n","e","r","g","y"," ","o","n",":"," ">>
                    \o Join(<<","," ">>, [i \in 1..Len(high) |-> Weekday(high[i])])>>
             ELSE <<>>)
            \o <<<<"C","a","p","t","u","r","e","d"," ">> \o Str(reflection_count) \o <<" ","e","v","e","n","i","n","g"," ","r","e","f","l","e","c","t","i","o","n","s"," ","t","h","i","s"," ","w","e","e","k",".">>>>,
        energy_trends |->
            IF average_truthy(average)
            THEN <<<<"A","v","e","r","a","g","e"," ","r","e","c","o","r","d","e","d"," ","e","n","e","r","g","y",":"," ">>
                   \o FormatFixed2(average[1][1], average[1][2]) \o <<"/","5">>>>
            ELSE <<>>]

\* reflections as the store receives them from the planner: the JSON request
\* puts no range on the levels
SampleZero == <<600, 0>>
WeeklyReflections ==
    {[actual_focus |-> <<"s","p","e","c">>, wins |-> <<>>, challenges |-> <<>>,
      tomorrow_intent |-> <<"r","e","s","t">>, energy_pattern |-> p] :
        p \in {<<>>, <<SampleB>>, <<SampleB, SampleA>>, <<SampleZero>>}}

\* date.today() moves on by a day or by the length of the window
SkipDays(k) ==
    /\ today + k <= MaxDay + WindowDays
    /\ today' = today + k
    /\ result' = [op |-> "skip_days"]
    /\ StoreUnchanged
    /\ UNCHANGED <<store_events, store_tasks, memory_sessions, now, reqs, running,
                   first_id, appended, ops>>

\* GET /api/patterns/weekly: PlannerService.weekly_patterns()
WeeklyPatterns(r) ==
    /\ OnLoop(r, "weekly_patterns")
    /\ result' = [op |-> "weekly_patterns", req |-> r,
                  value |-> weekly_patterns(StoreOf(reqs[r]), today)]
    /\ Keep(r, Advance(reqs[r]))

\* the application's store exists, no request is in flight and one is to come
BetweenRequests == StoreCached /\ Settled /\ Len(reqs) < MaxReqs

\* the planner's store calls on the application's store and the passing days,
\* between one request and the next
StoreUpdateMorning(d, c) == BetweenRequests /\ UpdateMorningContext(d, c)
StoreUpdateEvening(d, r) == BetweenRequests /\ UpdateEveningReflection(d, r)
WeekPasses(k) == BetweenRequests /\ SkipDays(k)

\* GET /api/patterns/weekly requests over a store that the planner fills
NextWeekly ==
    \/ ArriveWeekly
    \/ \E r \in Requests : Resolve(r)
    \/ \E r \in Requests : WeeklyPatterns(r)
    \/ \E d \in Dates, c \in CoreMorningContexts : StoreUpdateMorning(d, c)
    \/ \E d \in Dates, r \in WeeklyReflections : StoreUpdateEvening(d, r)
    \/ \E k \in {1, WindowDays} : WeekPasses(k)

SpecWeekly == Init /\ [][NextWeekly]_vars

\* ------------------------------------------------- a day's context window
\* records the index holds at most
MaxRecords == 6

TotalRecords(mem) == SumSeq([i \in 1..Len(mem) |-> Len(mem[i].val)])

\* add_interaction for date d; the k-th record of the run answers "r<k>"
RecordInteraction(d) ==
    /\ TotalRecords(memory_sessions) < MaxRecords
    /\ LET metadata == Meta(<<<<"date", IsoFormat(d)>>, <<"type", <<"c","h","a","t">>>>>>)
       IN /\ memory_sessions' =
                 add_interaction(memory_sessions, <<"h","i">>,
                                 <<"r">> \o Str(TotalRecords(memory_sessions) + 1),
                                 metadata, today, now)
          /\ result' = [op |-> "add_interaction", metadata |-> metadata, day |-> today,
                        before |-> memory_sessions]
    /\ UNCHANGED <<today, now, ops>>
    /\ MemoryOnly

NextContext ==
    \/ \E d \in Dates : RecordInteraction(d)
    \/ \E d \in Dates : GetContextForDate(d)

SpecContext == Init /\ [][NextContext]_vars

\* ================================================================== claims
Count(seq, x) == Cardinality({i \in 1..Len(seq) : seq[i] = x})
IsPrefix(a, b) == Len(a) <= Len(b) /\ SubSeq(b, 1, Len(a)) = a

\* C1: the store holds at most one session per date, the session stored under
\* a date carries that date, and its identifier (what get_or_create_session
\* returns) is the one the first get-or-create of that date returned, after any
\* sequence of store operations on any dates.
C1_OneSessionPerDate ==
    /\ \A i, j \in 1..Len(store_sessions) :
           store_sessions[i].key = store_sessions[j].key => i = j
    /\ \A d \in Dates :
           Has(store_sessions, d) =>
               /\ SessionOf(St, d).date = d
               /\ SessionOf(St, d).id = first_id[d]
    /\ result.op = "get_or_create_session" => result.id = first_id[result.date]

\* C1 witness: get_or_create_session returned for a date whose session had
\* already been updated, with a second date's session in the store.
C1_Witness ==
    /\ result.op = "get_or_create_session"
    /\ Len(store_sessions) = 2
    /\ SessionOf(St, result.date).energy_pattern # <<>>

\* C2: every session's energy timeline is exactly the samples handed to the
\* store for its date, in call order (one per morning context, a reflection's
\* samples in their supplied order); a date with no session was handed none.
C2_TimelineIsConcatenation ==
    \A d \in Dates :
        IF Has(store_sessions, d)
        THEN /\ SessionOf(St, d).energy_pattern = appended[d]
             /\ Len(SessionOf(St, d).energy_pattern) = Len(appended[d])
        ELSE appended[d] = <<>>

\* C2 witness: a timeline holding a morning sample between reflection samples.
C2_Witness ==
    \E d \in Dates :
        /\ Has(store_sessions, d)
        /\ SessionOf(St, d).energy_pattern = <<SampleA, <<now, 2>>, SampleB, SampleA>>

\* all decisions held by the sessions of the store
AllDecisions ==
    Flatten([i \in 1..Len(store_sessions) |-> heap[store_sessions[i].val].decisions])

\* C7: recent_decisions(n) returns min(n, total) decisions, sorted by timestamp
\* descending, each one a stored decision (counted with multiplicity), and they
\* are the greatest timestamps of all sessions: for every timestamp t the result
\* holds as many decisions at or after t as fit.
C7_RecentDecisions ==
    result.op = "recent_decisions" =>
        LET v == result.value
            all == AllDecisions
        IN /\ Len(v) = Min(result.limit, Len(all))
           /\ \A i \in 1..(Len(v) - 1) : v[i].timestamp >= v[i + 1].timestamp
           /\ \A i \in 1..Len(v) : Count(v, v[i]) <= Count(all, v[i])
           /\ \A t \in Times :
                  Cardinality({i \in 1..Len(v) : v[i].timestamp >= t}) =
                      Min(Len(v), Cardinality({i \in 1..Len(all) : all[i].timestamp >= t}))

\* C7 witness: the two newest of three decisions come from different sessions,
\* the newest one from the older date.
C7_Witness ==
    /\ result.op = "recent_decisions"
    /\ result.limit = 2
    /\ Len(AllDecisions) = 3
    /\ Len(result.value) = 2
    /\ result.value[1].session_id # result.value[2].session_id
    /\ result.value[1].timestamp > result.value[2].timestamp
    /\ \E d \in Dates : Has(store_sessions, d) /\ d > 1
                        /\ SessionOf(St, 1).id = result.value[1].session_id

\* C8 (as claimed): recent_events(limit) returns exactly the last
\* min(limit, n) events of the log, in insertion order, for every limit >= 0.
C8_RecentEventsLastMin ==
    result.op = "recent_events" =>
        LET n == Len(store_events)
            m == Min(result.limit, n)
        IN result.value = SubSeq(store_events, n - m + 1, n)

\* whitespace-separated tokens of a query, stated on positions: the maximal
\* runs of non-space characters
TokenAt(q, i, j) ==
    /\ i <= j
    /\ \A k \in i..j : ~IsSpace(q[k])
    /\ (i = 1 \/ IsSpace(q[i - 1]))
    /\ (j = Len(q) \/ IsSpace(q[j + 1]))

ClaimTokens(q) ==
    {Lower(SubSeq(q, i, j)) : <<i, j>> \in {p \in (1..Len(q)) \X (1..Len(q)) : TokenAt(q, p[1], p[2])}}

IsSubstring(t, text) ==
    \E off \in 0..(Len(text) - Len(t)) : \A k \in 1..Len(t) : text[off + k] = t[k]

\* a record matches when every token of the query occurs in its lower-cased text
ClaimMatches(rec, q) ==
    \A t \in ClaimTokens(q) :
        IsSubstring(t, Lower(rec.user_input \o <<" ">> \o rec.ai_response))

\* the records of the index in scan order
ScanOrder == Flatten(DictValues(memory_sessions))

\* the responses of the matching records, in scan order
RECURSIVE MatchingResponses(_, _)
MatchingResponses(recs, q) ==
    IF recs = <<>> THEN <<>>
    ELSE (IF ClaimMatches(Head(recs), q) THEN <<Head(recs).ai_response>> ELSE <<>>)
         \o MatchingResponses(Tail(recs), q)

\* C4 (as claimed): search_memories(q, k) returns at most k results, exactly the
\* first k matching records in scan order, for every k >= 0.
C4_SearchAtMostLimit ==
    result.op = "search_memories" =>
        /\ Len(result.value) <= result.limit
        /\ result.value = Take(MatchingResponses(ScanOrder, result.query), result.limit)

\* C5: every response search_memories returns is the response of a stored
\* record whose lower-cased "user_input ai_response" contains every
\* whitespace-separated, lower-cased token of the query.
C5_ConjunctiveMatch ==
    result.op = "search_memories" =>
        \A i \in 1..Len(result.value) :
            \E j \in 1..Len(ScanOrder) :
                /\ ScanOrder[j].ai_response = result.value[i]
                /\ ClaimMatches(ScanOrder[j], result.query)

\* C5 witness: a two-token query returned a record holding both tokens while
\* the index also holds a record with only one of them.
C5_Witness ==
    /\ result.op = "search_memories"
    /\ result.query = <<"f","o","c","u","s"," ","e","n","e","r","g","y">>
    /\ result.value = <<<<"E","n","e","r","g","y"," ","h","i","g","h">>>>
    /\ \E j \in 1..Len(ScanOrder) : ScanOrder[j].ai_response = <<"c","a","l","m">>
    /\ \E j \in 1..Len(ScanOrder) : ScanOrder[j].ai_response = <<"c","u","s"," ","e","n","e","r","g","y">>

\* the bucket the claim names for a metadata mapping
ClaimKeyHasField(metadata, day) ==
    IF Has(metadata, "session_id") THEN DictGet(metadata, "session_id")
    ELSE IF Has(metadata, "date") THEN DictGet(metadata, "date")
    ELSE IsoFormat(day)

ClaimKeyNonEmpty(metadata, day) ==
    IF Has(metadata, "session_id") /\ DictGet(metadata, "session_id") # <<>>
    THEN DictGet(metadata, "session_id")
    ELSE IF Has(metadata, "date") /\ DictGet(metadata, "date") # <<>>
         THEN DictGet(metadata, "date")
         ELSE IsoFormat(day)

\* exactly one record was appended, at the end of bucket key (created last if
\* absent), and every other bucket is as before, in the same order
AppendedOneTo(before, after, key, metadata) ==
    LET old == IF Has(before, key) THEN DictGet(before, key) ELSE <<>>
    IN /\ Has(after, key)
       /\ Len(DictGet(after, key)) = Len(old) + 1
       /\ SubSeq(DictGet(after, key), 1, Len(old)) = old
       /\ DictGet(after, key)[Len(old) + 1].metadata = metadata
       /\ Len(after) = Len(before) + (IF Has(before, key) THEN 0 ELSE 1)
       /\ \A i \in 1..Len(before) :
              /\ after[i].key = before[i].key
              /\ before[i].key # key => after[i].val = before[i].val
       /\ ~Has(before, key) => after[Len(after)].key = key

\* C9 (as claimed): the bucket is the session_id field's when the metadata has
\* one, else the date field's when it has one, else today's ISO date.
C9_BucketByFieldPresence ==
    result.op = "add_interaction" =>
        AppendedOneTo(result.before, memory_sessions,
                      ClaimKeyHasField(result.metadata, result.day), result.metadata)

\* C9 (amended): the bucket is the session_id field's when the metadata has a
\* non-empty one, else the date field's when it has a non-empty one, else
\* today's ISO date; exactly one record is appended at the end of that bucket
\* and every other bucket is unchanged.
C9_BucketByNonEmptyField ==
    result.op = "add_interaction" =>
        AppendedOneTo(result.before, memory_sessions,
                      ClaimKeyNonEmpty(result.metadata, result.day), result.metadata)

\* C9 witness: metadata with both fields went to the session_id bucket, which
\* already held a record, while the date's bucket exists and another
\* interaction had fallen back to today's bucket.
C9_Witness ==
    /\ result.op = "add_interaction"
    /\ Has(result.metadata, "session_id") /\ Has(result.metadata, "date")
    /\ DictGet(result.metadata, "session_id") = <<"s","1">>
    /\ Has(memory_sessions, <<"s","1">>)
    /\ Len(DictGet(memory_sessions, <<"s","1">>)) = 2
    /\ Has(memory_sessions, IsoFormat(1))

\* the samples of every session of every store
StoredSamples ==
    UNION {{heap[i].energy_pattern[k] : k \in 1..Len(heap[i].energy_pattern)} :
           i \in 1..Len(heap)}

\* C3 (as claimed): every sample in every session's energy timeline has a level
\* in [1,5], whatever the requests carried.
C3_LevelsInRange == \A sample \in StoredSamples : 1 <= sample[2] /\ sample[2] <= 5

\* the requests whose workflow ran to its last statement, which records the
\* interaction (an HTML route may still fail after it, building the page)
DoneRequests ==
    {r \in 1..Len(reqs) : reqs[r].status \in {"done", "failed"} /\ reqs[r].bucket # <<>>}
Orders(S) == {p \in [1..Cardinality(S) -> S] : \A i, j \in 1..Cardinality(S) : p[i] = p[j] => i = j}

\* what the completed request r was to leave behind: samples in the timeline
\* of date d, decisions in d's list, records in the bucket of a key
SamplesGiven(r, d) ==
    CASE r \notin DoneRequests -> 0
      [] reqs[r].kind = "morning_checkin" /\ reqs[r].day = d -> 1
      [] reqs[r].kind = "evening_reflection" /\ reqs[r].payload.session_date = d ->
             Len(reqs[r].payload.energy_pattern)
      [] OTHER -> 0
DecisionsGiven(r, d) ==
    IF r \in DoneRequests /\ reqs[r].kind = "create_decision" /\ reqs[r].day = d
    THEN 1 ELSE 0
RecordsGiven(r, key) ==
    IF r \in DoneRequests /\ reqs[r].bucket = key THEN 1 ELSE 0

\* the application's session of date d, as later requests see it
TimelineOf(d) == IF Has(store_sessions, d) THEN SessionOf(St, d).energy_pattern ELSE <<>>
DecisionsOf(d) == IF Has(store_sessions, d) THEN SessionOf(St, d).decisions ELSE <<>>
\* the bucket of a key, empty when the index has none
BucketOf(mem, key) ==
    IF \E i \in 1..Len(mem) : mem[i].key = key
    THEN mem[CHOOSE i \in 1..Len(mem) : mem[i].key = key].val
    ELSE <<>>

\* C6 (as claimed): after requests that ran concurrently have all completed,
\* no update is lost: the energy timeline and the decision list of every date's
\* session hold the samples and decisions of every completed request, and every
\* memory bucket holds the record of every completed request that wrote to it.
C6_NoLostUpdate ==
    Settled =>
        \A d \in Dates :
            /\ Len(TimelineOf(d)) = SumSeq([r \in 1..Len(reqs) |-> SamplesGiven(r, d)])
            /\ Len(DecisionsOf(d)) = SumSeq([r \in 1..Len(reqs) |-> DecisionsGiven(r, d)])
            /\ Len(BucketOf(memory_sessions, IsoFormat(d))) =
                   SumSeq([r \in 1..Len(reqs) |-> RecordsGiven(r, IsoFormat(d))])

\* every request holds the application's store and memory index
OneStore ==
    \A r \in 1..Len(reqs) : reqs[r].store # "own" /\ reqs[r].memory # "own"

\* C6, the lost update: a check-in and a decision capture for the same day
\* have both completed, the second arrived while the first was unfinished, and
\* the application's session holds the decision but not the check-in's sample
C6_LostUpdateReached ==
    /\ Settled
    /\ Len(reqs) = 2
    /\ reqs[1].status = "done" /\ reqs[2].status = "done"
    /\ reqs[2].overlap
    /\ {reqs[1].kind, reqs[2].kind} = {"morning_checkin", "create_decision"}
    /\ reqs[1].day = reqs[2].day
    /\ Len(DecisionsOf(reqs[1].day)) = 1
    /\ TimelineOf(reqs[1].day) = <<>>

CheckinsOnly ==
    /\ Settled
    /\ \A r \in 1..Len(reqs) : reqs[r].kind = "morning_checkin"
    /\ \A r, q \in DoneRequests : reqs[r].day = reqs[q].day

\* C10 (as claimed): a morning check-in appends exactly one record, to the
\* bucket keyed by the ISO date of the day its handler read, and changes no
\* other bucket; when it does so the context it used had been read before (it is
\* the bucket's content before the append) and the session already carries its
\* morning context; and after n completed check-ins of one day and nothing
\* else that day's bucket is the only bucket and holds n records.
C10_CheckinRecordsOnce ==
    /\ (result.op = "add_interaction" /\ reqs[result.req].kind = "morning_checkin") =>
           LET req == reqs[result.req]
           IN /\ AppendedOneTo(result.before, Memory(req), IsoFormat(req.day),
                               result.metadata)
              /\ req.context = get_context_for_date(result.before, req.day)
              /\ Has(Sessions(req), req.day)
              /\ SessionOf(StoreOf(req), req.day).morning_context
                     = <<MorningContext(req.payload)>>
    /\ (CheckinsOnly /\ DoneRequests # {}) =>
           LET d == reqs[CHOOSE r \in DoneRequests : TRUE].day
           IN /\ Len(memory_sessions) = 1
              /\ memory_sessions[1].key = IsoFormat(d)
              /\ Len(memory_sessions[1].val) = Cardinality(DoneRequests)

\* C10, the missing record: two check-ins of one day have completed and the
\* day's bucket of the application's index holds one record
C10_MissingRecordReached ==
    /\ CheckinsOnly
    /\ Cardinality(DoneRequests) = 2
    /\ Len(BucketOf(memory_sessions, IsoFormat(reqs[1].day))) = 1

\* the positions of the lines that begin with a given text
LinesWith(lines, prefix) == {i \in 1..Len(lines) : IsPrefix(prefix, lines[i])}
TasksHeader == <<"T","o","d","a","y","'","s"," ","t","a","s","k","s",":">>
NoTasksLine == <<"N","o"," ","s","c","h","e","d","u","l","e","d"," ","t","a","s","k","s"," ","f","o","r"," ","t","o","d","a","y","."," ","C","o","n","s","i","d","e","r"," ","p","l","a","n","n","i","n","g"," ","o","n","e"," ","m","e","a","n","i","n","g","f","u","l"," ","s","t","e","p",".">>
OneIff(S, present) == Cardinality(S) = IF present THEN 1 ELSE 0
Before(S, T) == \A i \in S, j \in T : i < j

\* the plan of the check-in whose add_interaction just ran, as the index
\* recorded it (the text the handler returns), and its lines
RecordedPlan ==
    LET req == reqs[result.req]
        bucket == BucketOf(Memory(req), IsoFormat(req.day))
    IN bucket[Len(bucket)].ai_response
\* the lines of a text: what stands between its line ends
TextLines(text) ==
    LET ends == {i \in 1..Len(text) : text[i] = "\n"}
        n == Cardinality(ends) + 1
        End(k) == IF k = 0 THEN 0
                  ELSE IF k = n THEN Len(text) + 1
                  ELSE CHOOSE p \in ends : Cardinality({q \in ends : q < p}) = k - 1
    IN [k \in 1..n |-> SubSeq(text, End(k - 1) + 1, End(k) - 1)]
PlanTextLines == TextLines(RecordedPlan)

\* the claimed composition, of a sequence of lines for the check-in req that
\* found the bucket of its day as before
ComposedInOrder(lines, req, before) ==
    LET n == Len(lines)
        top == LinesWith(lines, <<"T","o","p"," ","o","f"," ","m","i","n","d",":"," ">>)
        blk == LinesWith(lines, <<"W","a","t","c","h"," ","o","u","t"," ","f","o","r"," ","b","l","o","c","k","e","r","s",":"," ">>)
        rec == LinesWith(lines, <<"R","e","c","e","n","t"," ","h","i","g","h","l","i","g","h","t","s",":"," ">>)
        hdr == {i \in 1..n : lines[i] = TasksHeader}
        fallback == {i \in 1..n : lines[i] = NoTasksLine}
        due == req.tasks
        tail == IF due # <<>> THEN Len(due) + 1 ELSE 1
    IN /\ n >= 2
       /\ IsPrefix(<<"G","o","o","d"," ","m","o","r","n","i","n","g","!"," ","Y","o","u","r"," ","e","n","e","r","g","y"," ","i","s"," ","a","t"," ">>, lines[1])
       /\ IsPrefix(<<"T","o","d","a","y","'","s"," ","f","o","c","u","s",":"," ">>, lines[2])
       /\ OneIff(top, req.payload.top_of_mind # <<>>)
       /\ OneIff(blk, req.payload.blockers # <<>>)
       /\ OneIff(rec, Len(BucketOf(before, IsoFormat(req.day))) > 0)
       /\ Before({2}, top \cup blk \cup rec) /\ Before(top, blk) /\ Before(blk, rec)
       /\ Before(top \cup blk \cup rec, {n - tail + 1})
       /\ n = 2 + Cardinality(top \cup blk \cup rec) + tail
       /\ IF due # <<>>
          THEN /\ hdr = {n - Len(due)} /\ fallback = {}
               /\ \A k \in 1..Len(due) : lines[n - Len(due) + k] = Bullet \o due[k].title
          ELSE hdr = {} /\ fallback = {n}

\* a check-in has just recorded its plan
PlanRecorded == result.op = "add_interaction" /\ reqs[result.req].kind = "morning_checkin"

\* C11 (as claimed): the plan a check-in returns is a sequence of lines in the
\* order greeting/energy, focus, top-of-mind, blockers, recent memories, tasks:
\* the first two are always there, each of the next three is there exactly when
\* its list is non-empty, and the plan ends with the header and one line per
\* task due today when there is one, with the single fallback line otherwise,
\* and never holds both; the tasks are those due on the day the handler read.
C11_PlanComposition ==
    /\ result.op = "get_tasks" =>
           LET req == reqs[result.req]
               all == get_all_tasks(Tasks(req))
               IsDue(task) == task.due_date = <<result.day>>
           IN req.tasks = SelectSeq(all, IsDue)
    /\ PlanRecorded => ComposedInOrder(PlanTextLines, reqs[result.req], result.before)

\* what does hold: the entries the handler joins with line ends are composed
\* in the claimed order, and the recorded plan is their join
PlanEntriesInOrder ==
    PlanRecorded =>
        /\ ComposedInOrder(result.lines, reqs[result.req], result.before)
        /\ RecordedPlan = Join(<<"\n">>, result.lines)

\* C11, the nested plan: a second check-in of a day has recorded a plan whose
\* recent-highlights entry holds the first one's plan, line ends included, so
\* the text has the task header on two of its lines
C11_NestedPlanReached ==
    /\ PlanRecorded
    /\ Len(reqs[result.req].context) = 1
    /\ Cardinality({i \in 1..Len(PlanTextLines) : PlanTextLines[i] = TasksHeader}) = 2

\* C11, both endings: the text of a plan has the fallback line, quoted from an
\* earlier plan of the day, and the task list
C11_BothEndingsReached ==
    /\ PlanRecorded
    /\ \E i, k \in 1..Len(PlanTextLines) :
           i < k /\ PlanTextLines[i] = NoTasksLine /\ PlanTextLines[k] = TasksHeader

\* C11, every part: the entries of a plan are all six parts, the last being the
\* task list
C11_AllPartsReached ==
    /\ PlanRecorded
    /\ Len(result.lines) = 8
    /\ reqs[result.req].payload.top_of_mind # <<>>
    /\ reqs[result.req].payload.blockers # <<>>
    /\ reqs[result.req].context # <<>>
    /\ Len(reqs[result.req].tasks) = 2

\* C11, the fallback: a plan that ends with the fallback line
C11_FallbackReached ==
    /\ PlanRecorded
    /\ reqs[result.req].tasks = <<>>
    /\ PlanTextLines[Len(PlanTextLines)] = NoTasksLine

\* the tasks of a store content due on a day, as a set of positions
DuePositions(tasks, d) == {i \in 1..Len(tasks) : tasks[i].val.due_date = <<d>>}

\* the identifiers a store content holds
TaskKeys(tasks) == {tasks[i].key : i \in 1..Len(tasks)}

\* the tasks the seed_sample_tasks call of request r has inserted so far
SeededBy(r) ==
    {reqs[r].built[i] : i \in 1..(Len(reqs[r].built) - Len(reqs[r].pending))}

\* a store holds the tasks the given calls have inserted, each under its own
\* identifier, and no other task
HoldsOnly(tasks, calls) ==
    /\ {tasks[i].val : i \in 1..Len(tasks)} = UNION {SeededBy(r) : r \in calls}
    /\ \A i, k \in 1..Len(tasks) : tasks[i].key = tasks[k].key => i = k
    /\ \A i \in 1..Len(tasks) : tasks[i].key = tasks[i].val.id

\* C12: a seed_sample_tasks call that finds any task in the store ends there
\* and builds nothing, and so does the call every PlannerService construction
\* makes, so that a store never holds a task other than those of the calls that
\* found it empty; a call that finds the store empty goes on to build exactly
\* three tasks with three fresh identifiers, two due today and one due
\* tomorrow, and inserts each of them once, at the end of the store.
C12_SeedOnceOnly ==
    /\ (result.op \in {"arrive", "get_memory_service", "seed_check"} /\ result.checked) =>
           LET req == reqs[result.req]
           IN IF result.before # <<>>
              THEN req.dep = "done" /\ req.built = <<>> /\ req.found = result.before
              ELSE req.dep = "seed_today" /\ req.found = <<>>
    /\ HoldsOnly(store_tasks, {r \in 1..Len(reqs) : reqs[r].store = "app" /\ reqs[r].found = <<>>})
    /\ \A r \in 1..Len(reqs) :
           reqs[r].store = "own" => HoldsOnly(reqs[r].own.tasks, {r})
    /\ \A r \in 1..Len(reqs) :
           LET req == reqs[r]
               inserted == Len(req.built) - Len(req.pending)
           IN /\ req.found # <<>> => req.built = <<>> /\ req.dep = "done"
              /\ req.dep = "done" => req.pending = <<>>
              /\ req.built # <<>> =>
                     /\ Len(req.built) = 3
                     /\ Cardinality({req.built[i].id : i \in 1..3}) = 3
                     /\ Cardinality({i \in 1..3 : req.built[i].due_date = <<req.seed_day>>}) = 2
                     /\ Cardinality({i \in 1..3 : req.built[i].due_date = <<req.seed_day + 1>>}) = 1
                     /\ \A i \in 1..3 : (i <= inserted) <=> (req.built[i].id \in TaskKeys(Tasks(req)))
    /\ result.op = "seed_insert" =>
           LET req == reqs[result.req]
               tasks == store_tasks
           IN /\ Len(tasks) = Len(result.before) + 1
              /\ SubSeq(tasks, 1, Len(result.before)) = result.before
              /\ tasks[Len(tasks)].val = req.built[Len(req.built) - Len(req.pending)]
              /\ tasks[Len(tasks)].key = tasks[Len(tasks)].val.id

\* C12 witness: a PlannerService construction called seed_sample_tasks on the
\* three tasks an earlier call had seeded
C12_Witness ==
    /\ result.op = "arrive" /\ result.checked
    /\ Len(result.before) = 3
    /\ \E r \in 1..Len(reqs) : reqs[r].built # <<>> /\ reqs[r].dep = "done"
    /\ reqs[result.req].built = <<>>
    /\ DuePositions(result.before, 1) # {}

\* C12, the unseeded cache: GET /daily or GET /decide left an empty store in
\* the cache of get_store, and the construction of a later request found it
\* there, empty, and seeded it
C12_UnseededCacheReached ==
    /\ Len(reqs) = 2
    /\ reqs[1].kind \in StoreRoutes /\ reqs[1].store = "app" /\ reqs[1].status = "done"
    /\ ~reqs[2].overlap
    /\ reqs[2].store = "app" /\ reqs[2].dep = "done" /\ Len(reqs[2].built) = 3
    /\ Len(store_tasks) = 3

\* C12, a store of its own: a construction beside a page request seeded the
\* store it had built itself, and the cached store holds no task
C12_OwnStoreReached ==
    /\ Len(reqs) = 2
    /\ \E r, q \in 1..2 :
           /\ reqs[r].kind \in StoreRoutes /\ reqs[r].store = "app"
           /\ reqs[q].store = "own" /\ Len(reqs[q].own.tasks) = 3
    /\ store_tasks = <<>>

\* C12 second case: two calls both found the store empty, and it holds six tasks
C12_SeededTwiceReached ==
    /\ Len(store_tasks) = 6
    /\ \A r \in 1..2 : r <= Len(reqs) /\ reqs[r].built # <<>> /\ reqs[r].store = "app"

\* C13: upsert_tasks([t]) a second time changes nothing; after it get_all_tasks
\* holds exactly one task with t's identifier, which is t, and the tasks with
\* other identifiers are those from before, in their order.
C13_UpsertIdempotent ==
    result.op = "upsert_tasks" =>
        LET t == result.task
            Other(task) == task.id # t.id
            all == get_all_tasks(store_tasks)
        IN /\ upsert_tasks(store_tasks, <<t>>) = store_tasks
           /\ Cardinality({i \in 1..Len(all) : all[i].id = t.id}) = 1
           /\ \E i \in 1..Len(all) : all[i] = t
           /\ SelectSeq(all, Other) = SelectSeq(get_all_tasks(result.before), Other)

\* C13 witness: a stored task was upserted again with other field values
C13_Witness ==
    /\ result.op = "upsert_tasks"
    /\ Has(result.before, result.task.id)
    /\ DictGet(result.before, result.task.id) # result.task
    /\ Len(store_tasks) >= 2

\* the dates of the stored sessions within the seven days that end today
\* the store the weekly request reads
WeeklyStore == IF result.op = "weekly_patterns" THEN StoreOf(reqs[result.req]) ELSE St
WindowDates ==
    {WeeklyStore.sessions[i].key : i \in 1..Len(WeeklyStore.sessions)}
        \cap {d \in Dates : today - 6 <= d /\ d <= today}
WindowSamples(d) == SessionOf(WeeklyStore, d).energy_pattern
HighDates == {d \in WindowDates : \E k \in 1..Len(WindowSamples(d)) : WindowSamples(d)[k][2] >= 4}
ReflectedDates == {d \in WindowDates : SessionOf(WeeklyStore, d).evening_reflection # <<>>}
RECURSIVE SumOver(_, _)
SumOver(S, f) ==
    IF S = {} THEN 0 ELSE LET d == CHOOSE x \in S : TRUE IN f[d] + SumOver(S \ {d}, f)
WindowCount == SumOver(WindowDates, [d \in Dates |-> Len(WindowSamples(d))])
WindowSum == SumOver(WindowDates, [d \in Dates |-> SumSeq(Levels(WindowSamples(d)))])

\* C14 (as claimed): weekly_patterns reports, over the sessions dated today-6
\* through today: one 'High energy on' highlight naming exactly the days with a
\* sample >= 4, none when there is no such day; the number of those sessions
\* with an evening reflection; and the average entry, the mean of all samples
\* of the window to two decimals, present exactly when the window has a sample.
C14_WeeklyPatterns ==
    result.op = "weekly_patterns" =>
        LET v == result.value
            high == LinesWith(v.highlights, <<"H","i","g","h"," ","e","n","e","r","g","y"," ","o","n",":"," ">>)
        IN /\ OneIff(high, HighDates # {})
           /\ HighDates # {} =>
                  \E order \in Orders(HighDates) :
                      v.highlights[1] = <<"H","i","g","h"," ","e","n","e","r","g","y"," ","o","n",":"," ">>
                          \o Join(<<","," ">>, [i \in 1..Len(order) |-> Weekday(order[i])])
           /\ v.highlights[Len(v.highlights)] =
                  <<"C","a","p","t","u","r","e","d"," ">> \o Str(Cardinality(ReflectedDates))
                      \o <<" ","e","v","e","n","i","n","g"," ","r","e","f","l","e","c","t","i","o","n","s"," ","t","h","i","s"," ","w","e","e","k",".">>
           /\ Len(v.highlights) = Cardinality(high) + 1
           /\ v.energy_trends =
                  IF WindowCount >= 1
                  THEN <<<<"A","v","e","r","a","g","e"," ","r","e","c","o","r","d","e","d"," ","e","n","e","r","g","y",":"," ">>
                         \o FormatFixed2(WindowSum, WindowCount) \o <<"/","5">>>>
                  ELSE <<>>

\* the session dicts of every store: the application's and each request's own
SessionDicts ==
    {store_sessions} \cup {reqs[r].own.sessions : r \in 1..Len(reqs)}

\* C15: in every store, every decision in the decision list of a stored
\* session carries the identifier of that session, which is therefore the
\* identifier of a session that exists in that store.
C15_DecisionReferencesSession ==
    \A S \in SessionDicts :
        \A i \in 1..Len(S) :
            LET session == heap[S[i].val]
            IN \A k \in 1..Len(session.decisions) :
                   /\ session.decisions[k].session_id = session.id
                   /\ session.decisions[k].session_id \in {heap[S[j].val].id : j \in 1..Len(S)}

\* C15 witness: two decision captures have completed, the first of which
\* created the day's session, and the session holds both decisions
C15_Witness ==
    /\ Settled
    /\ Len(reqs) = 2
    /\ \A r \in 1..2 : reqs[r].kind = "create_decision" /\ reqs[r].status = "done"
    /\ reqs[1].day = reqs[2].day
    /\ Len(DecisionsOf(reqs[1].day)) = 2

\* C16: get_context_for_date(d) returns the response texts of the last
\* min(5, n) records of the bucket keyed by d's ISO date, oldest of them first,
\* the empty sequence when there is no such bucket, and leaves the index (its
\* buckets and their records) as it was.
C16_ContextIsLastFive ==
    result.op = "get_context_for_date" =>
        LET bucket == BucketOf(memory_sessions, IsoFormat(result.date))
            n == Len(bucket)
            m == IF n < 5 THEN n ELSE 5
        IN /\ result.value = [i \in 1..m |-> bucket[n - m + i].ai_response]
           /\ memory_sessions = result.before

\* C16 witness: the context of a date whose bucket holds more than five
\* records is the responses of the last five, the second record's first
C16_Witness ==
    /\ result.op = "get_context_for_date"
    /\ Len(BucketOf(memory_sessions, IsoFormat(result.date))) > 5
    /\ Len(result.value) = 5
    /\ result.value[1] = BucketOf(memory_sessions, IsoFormat(result.date))[2].ai_response

\* C16 second case: the context of a date without a bucket is empty
C16_NoBucketReached ==
    /\ result.op = "get_context_for_date"
    /\ memory_sessions # <<>>
    /\ \A i \in 1..Len(memory_sessions) : memory_sessions[i].key # IsoFormat(result.date)
    /\ result.value = <<>>

\* a statement of the handler of reflection request r runs in this step
ReflectionStep(r) ==
    /\ r <= Len(reqs)
    /\ reqs[r].kind = "evening_reflection"
    /\ reqs[r].status = "running"
    /\ Len(reqs') = Len(reqs)
    /\ reqs'[r] # reqs[r]

\* in the step of request r the sessions of the dates other than d, and the
\* buckets of the keys other than d's, stay as they are
OthersUntouched(r, d) ==
    LET S == Sessions(reqs[r])
        T == Sessions(reqs[r])'
        M == Memory(reqs[r])
        N == Memory(reqs[r])'
    IN /\ \A i \in 1..Len(S) :
              S[i].key # d => Has(T, S[i].key) /\ heap'[DictGet(T, S[i].key)] = heap[S[i].val]
       /\ \A i \in 1..Len(T) : T[i].key # d => Has(S, T[i].key)
       /\ \A i \in 1..Len(M) : M[i].key # IsoFormat(d) => BucketOf(N, M[i].key) = M[i].val
       /\ \A i \in 1..Len(N) : N[i].key # IsoFormat(d) => BucketOf(M, N[i].key) = N[i].val

\* the effects of a reflection handler, one statement after the other
ReflectionEffectsInOrder ==
    (result.op \in {"update_evening_reflection", "add_event", "add_interaction"}
        /\ reqs[result.req].kind = "evening_reflection") =>
        LET req == reqs[result.req]
            d == req.payload.session_date
            st == StoreOf(req)
            events == Events(req)
            Placed == /\ Has(st.sessions, d)
                      /\ SessionOf(st, d).evening_reflection = <<EveningReflection(req.payload)>>
            Logged == /\ events = Append(result.events, events[Len(events)])
                      /\ events[Len(events)].session_id = SessionOf(st, d).id
        IN CASE result.op = "update_evening_reflection" ->
                    /\ Placed
                    /\ Has(result.before, d) =>
                           /\ st.sessions = result.before
                           /\ SessionOf(st, d).id = result.heap[DictGet(result.before, d)].id
                    /\ events = result.events
                    /\ Memory(req) = result.memory
             [] result.op = "add_event" ->
                    /\ Placed
                    /\ st.sessions = result.before /\ heap = result.heap
                    /\ Logged
                    /\ Memory(req) = result.memory
             [] result.op = "add_interaction" ->
                    /\ Placed
                    /\ st.sessions = result.sessions /\ heap = result.heap
                    /\ events = result.events
                    /\ events # <<>> /\ events[Len(events)].session_id = SessionOf(st, d).id
                    /\ AppendedOneTo(result.before, Memory(req), IsoFormat(d), result.metadata)

\* C17: an evening reflection request for date d first replaces d's evening
\* reflection in the store (the session created if absent), then appends one
\* PlannerEvent carrying the identifier of d's session, then appends one
\* interaction to the bucket keyed by d's ISO date, whatever today is; no step
\* of its handler changes a session of another date or another bucket.
C17_ReflectionSteps ==
    /\ []ReflectionEffectsInOrder
    /\ [][\A r \in Requests :
              ReflectionStep(r) => OthersUntouched(r, reqs'[r].payload.session_date)]_vars

\* C17 witness: a reflection for a date other than today has completed after an
\* earlier reflection had left a session, an event and a bucket for today
C17_Witness ==
    /\ result.op = "add_interaction"
    /\ reqs[result.req].kind = "evening_reflection"
    /\ reqs[result.req].payload.session_date # result.day
    /\ Has(store_sessions, result.day)
    /\ Len(store_sessions) = 2
    /\ Len(memory_sessions) = 2
    /\ Len(store_events) = 2

====
